---- MODULE Spec2Model ----
(***************************************************************************)
(* Nudging decision pipeline of back2task.                                 *)
(*                                                                         *)
(* The repository carries two LLMService engines:                          *)
(*   "static" : src/src/api/services/llm.py  (every failure -> quiet, 0.0) *)
(*   "rules"  : src/api/services/llm.py      (failure -> _fallback_policy) *)
(* Text is a sequence of one-character strings, so that substring search   *)
(* and letter case are computed and not assumed.  A Python Optional is     *)
(* None (the empty tuple) or Some(v) (a one-element tuple).  Time is       *)
(* counted in ticks of half a second, confidence in tenths.                *)
(***************************************************************************)
EXTENDS Integers, Sequences, FiniteSets, TLC

VARIABLES
    variant,         \* which engine this LLMService instance is
    now,             \* time.time(), in ticks
    last_call_time,  \* LLMService.last_call_time
    prev_pass,       \* history: last_call_time before the latest limiter pass
    passes,          \* history: number of limiter passes so far
    op,              \* the operation that produced the current state
    task,            \* argument of the latest call
    obs,             \* observations argument of the latest call
    probe,           \* outcome of the latest GET /v1/models
    reply,           \* outcome of the latest POST /v1/chat/completions
    sent,            \* body of the latest POST (context prompt, image flag)
    posts,           \* POSTs issued by the latest call
    limited,         \* whether the latest call went through _rate_limit
    arrived,         \* history: when the latest limiter pass was entered
    result,          \* what the latest call returned or raised
    State,           \* STATE, the API process's session record
    request,         \* argument of the latest API request or function call
    response,        \* what the latest API request was answered with
    ingested,        \* history: event and answer of the latest ingestion answered 200
    served,          \* history: number of API requests handled so far
    session,         \* the session engine's part of the record: task, done, tick
    ticked,          \* history: the ticks the latest session has been given
    pc,              \* per task of the event loop: the statement it is at
    locals,          \* per task of the event loop: its local variables
    notifier,        \* the NotificationService instance
    attempts,        \* history: every rate-limit check so far, in call order
    pump,            \* the EventPump instance
    cycles           \* history: what the run_once cycles so far came to

\* the state of the decision service
llmVars == <<variant, now, last_call_time, prev_pass, passes, op, task, obs,
             probe, reply, sent, posts, limited, arrived, result>>

llmVars_but_op ==
    <<variant, now, last_call_time, prev_pass, passes, task, obs, probe, reply,
      sent, posts, limited, arrived, result>>

llmVars_but_op_result ==
    <<variant, now, last_call_time, prev_pass, passes, task, obs, probe, reply,
      sent, posts, limited, arrived>>

\* the state of the API process around it
apiVars ==
    <<State, request, response, ingested, served, session, ticked, pc, locals>>

\* the notification service and the event pump beside it
auxVars == <<notifier, attempts, pump, cycles>>

vars == <<variant, now, last_call_time, prev_pass, passes, op, task, obs,
          probe, reply, sent, posts, limited, arrived, result,
          State, request, response, ingested, served, session, ticked,
          pc, locals, notifier, attempts, pump, cycles>>

(***************************************************************************)
(* Python values                                                           *)
(***************************************************************************)
None == <<>>
Some(v) == <<v>>

\* bool(x) of an Optional[str]: None and "" are falsy
Truthy(x) == x # None /\ x[1] # <<>>

\* x or default
OrElse(x, default) == IF Truthy(x) THEN x[1] ELSE default

\* a JSON / attribute value: tagged, the payload always a string
PyNone == [t |-> "None", v |-> ""]
PyStr(s) == [t |-> "str", v |-> s]
PyNum(s) == [t |-> "number", v |-> s]
Absent == [t |-> "absent", v |-> ""]

\* dict.get(key, default) on a parsed JSON object
DictGet(d, key, default) == IF d[key] = Absent THEN default ELSE d[key]

S_None == <<"N", "o", "n", "e">>
S_unknown == <<"u", "n", "k", "n", "o", "w", "n">>
S_NA == <<"N", "/", "A">>
S_Code_exe == <<"C", "o", "d", "e", ".", "e", "x", "e">>
S_chrome_exe == <<"c", "h", "r", "o", "m", "e", ".", "e", "x", "e">>
S_main_editor == <<"m", "a", "i", "n", ".", "p", "y", " ", "-", " ", "e", "d", "i", "t", "o", "r">>
S_main_VSCode == <<"m", "a", "i", "n", ".", "p", "y", " ", "-", " ", "V", "S", "C", "o", "d", "e">>
S_FunnyCats == <<"F", "u", "n", "n", "y", " ", "C", "a", "t", "s", " ", "-", " ", "Y", "o", "u", "T", "u", "b", "e">>
S_YOUTUBE == <<"Y", "O", "U", "T", "U", "B", "E">>
S_Desktop == <<"D", "e", "s", "k", "t", "o", "p">>
S_reddit == <<"r", "e", "d", "d", "i", "t">>
S_youtube_url == <<"h", "t", "t", "p", "s", ":", "/", "/", "y", "o", "u", "t", "u", "b", "e", ".", "c", "o", "m", "/", "w", "a", "t", "c", "h">>
S_b64 == <<"i", "V", "B", "O", "R">>
S_def_function == <<"d", "e", "f", " ", "f", "u", "n", "c", "t", "i", "o", "n", "_", "n", "a", "m", "e", "(", ")", ":">>
S_no_phone == <<"n", "o", " ", "p", "h", "o", "n", "e">>

UpperChars == <<"A", "B", "C", "D", "E", "F", "G", "H", "I", "J", "K", "L", "M", "N", "O", "P", "Q", "R", "S", "T", "U", "V", "W", "X", "Y", "Z">>
LowerChars == <<"a", "b", "c", "d", "e", "f", "g", "h", "i", "j", "k", "l", "m", "n", "o", "p", "q", "r", "s", "t", "u", "v", "w", "x", "y", "z">>

\* str.lower() on one character and on a text
LowerChar(c) ==
    IF \E i \in 1..Len(UpperChars) : UpperChars[i] = c
    THEN LowerChars[CHOOSE i \in 1..Len(UpperChars) : UpperChars[i] = c]
    ELSE c

Lower(s) == [i \in 1..Len(s) |-> LowerChar(s[i])]

\* keyword in text
Contains(text, keyword) ==
    \/ keyword = <<>>
    \/ \E i \in 1..(Len(text) - Len(keyword) + 1) :
          /\ text[i] = keyword[1]
          /\ SubSeq(text, i, i + Len(keyword) - 1) = keyword

\* any(keyword in text for keyword in keywords)
AnyIn(keywords, text) == \E k \in 1..Len(keywords) : Contains(text, keywords[k])

\* s[:n]
Take(s, n) == SubSeq(s, 1, IF Len(s) < n THEN Len(s) ELSE n)

\* str(x) inside an f-string
Format(x) == IF x = None THEN S_None ELSE x[1]

(***************************************************************************)
(* NudgingPolicy and the two ways a call can end                           *)
(***************************************************************************)
NudgingPolicy(action, reason, tip, confidence) ==
    [kind |-> "policy", action |-> action, reason |-> reason, tip |-> tip,
     confidence |-> confidence]

Raise(exc) == [kind |-> "raise", exc |-> exc]

\* a call that returned value
Return(value) == [kind |-> "return", value |-> value]

NoResult == [kind |-> "none"]

\* the closed set of actions
Actions == {PyStr("quiet"), PyStr("gentle_nudge"), PyStr("strong_nudge")}

(***************************************************************************)
(* Rule-based fallback (engine "rules")                                    *)
(***************************************************************************)
strong_distractions ==
    << <<"y", "o", "u", "t", "u", "b", "e">>,
       <<"t", "i", "k", "t", "o", "k">>,
       <<"t", "w", "i", "t", "t", "e", "r">>,
       <<"i", "n", "s", "t", "a", "g", "r", "a", "m">>,
       <<"f", "a", "c", "e", "b", "o", "o", "k">>,
       <<"n", "e", "t", "f", "l", "i", "x">>,
       <<"p", "r", "i", "m", "e", " ", "v", "i", "d", "e", "o">>,
       <<"s", "t", "e", "a", "m">>,
       <<"g", "a", "m", "e">> >>

gentle_distractions ==
    << <<"r", "e", "d", "d", "i", "t">>,
       <<"n", "e", "w", "s">>,
       <<"s", "h", "o", "p", "p", "i", "n", "g">>,
       <<"a", "m", "a", "z", "o", "n">>,
       <<"e", "b", "a", "y">> >>

productive_patterns ==
    << <<"c", "o", "d", "e">>,
       <<"v", "s", "c", "o", "d", "e">>,
       <<"v", "i", "m">>,
       <<"e", "m", "a", "c", "s">>,
       <<"i", "d", "e">>,
       <<"t", "e", "r", "m", "i", "n", "a", "l">>,
       <<"d", "o", "c", "u", "m", "e", "n", "t", "a", "t", "i", "o", "n">>,
       <<"g", "i", "t", "h", "u", "b">>,
       <<"s", "t", "a", "c", "k", "o", "v", "e", "r", "f", "l", "o", "w">>,
       <<"p", "r", "o", "g", "r", "a", "m", "m", "i", "n", "g">> >>

\* f"{active_app} {title} {url}"
content_to_check(observations) ==
    Format(observations.active_app) \o <<" ">> \o Format(observations.title)
        \o <<" ">> \o Format(observations.url)

\* the keyword rules, reached when idle is short and there is no screenshot
KeywordPolicy(text) ==
    IF AnyIn(strong_distractions, text)
    THEN NudgingPolicy(PyStr("strong_nudge"), PyStr("Distraction detected"),
                       PyStr("Get back to your task!"), 8)
    ELSE IF AnyIn(gentle_distractions, text)
    THEN NudgingPolicy(PyStr("gentle_nudge"), PyStr("Minor distraction"),
                       PyStr("Consider returning to work"), 6)
    ELSE IF AnyIn(productive_patterns, text)
    THEN NudgingPolicy(PyStr("quiet"), PyStr("Productive activity"), PyNone, 7)
    ELSE NudgingPolicy(PyStr("quiet"), PyStr("Unknown activity"), PyNone, 3)

\* mutant: the keyword scan runs before the idle and screenshot checks
_fallback_policy_keywords_first(observations) ==
    LET text == content_to_check(observations)
    IN  IF observations.idle_ms = None THEN Raise("TypeError")
        ELSE IF AnyIn(strong_distractions, text) \/ AnyIn(gentle_distractions, text)
        THEN KeywordPolicy(text)
        ELSE IF observations.idle_ms[1] > 300000
        THEN NudgingPolicy(PyStr("gentle_nudge"), PyStr("Long idle time"),
                           PyStr("Ready to continue working?"), 7)
        ELSE IF Truthy(observations.screenshot)
        THEN NudgingPolicy(PyStr("quiet"), PyStr("Screenshot analysis unavailable"),
                           PyNone, 2)
        ELSE KeywordPolicy(text)

\* mutant: the strong keywords are scanned before the screenshot check
_fallback_policy_strong_before_screenshot(observations) ==
    IF observations.idle_ms = None THEN Raise("TypeError")
    ELSE IF observations.idle_ms[1] > 300000
    THEN NudgingPolicy(PyStr("gentle_nudge"), PyStr("Long idle time"),
                       PyStr("Ready to continue working?"), 7)
    ELSE IF AnyIn(strong_distractions, content_to_check(observations))
    THEN KeywordPolicy(content_to_check(observations))
    ELSE IF Truthy(observations.screenshot)
    THEN NudgingPolicy(PyStr("quiet"), PyStr("Screenshot analysis unavailable"),
                       PyNone, 2)
    ELSE KeywordPolicy(content_to_check(observations))

\* LLMService._fallback_policy; None > 300000 is a TypeError
_fallback_policy(observations) ==
    IF observations.idle_ms = None THEN Raise("TypeError")
    ELSE IF observations.idle_ms[1] > 300000
    THEN NudgingPolicy(PyStr("gentle_nudge"), PyStr("Long idle time"),
                       PyStr("Ready to continue working?"), 7)
    ELSE IF Truthy(observations.screenshot)
    THEN NudgingPolicy(PyStr("quiet"), PyStr("Screenshot analysis unavailable"),
                       PyNone, 2)
    ELSE KeywordPolicy(content_to_check(observations))

(***************************************************************************)
(* Liveness probe, rate limiter, context prompt                            *)
(***************************************************************************)
HTTP_OK == 200
IDLE_LONG_MS == 60000
IDLE_SHORT_MS == 5000

TicksPerSecond == 2
MaxOversleep == 1

\* 1.0 second
min_call_interval == 1 * TicksPerSecond

\* the clock runs long enough for a first pass, a wait and a late wake-up
MaxTime == 2 * min_call_interval + MaxOversleep

\* LLMService.is_available: a RequestException of the GET is swallowed
is_available(pr) == pr.kind = "status" /\ pr.code = HTTP_OK

\* mutant: the limiter stamps the call and never waits
_rate_limit_no_wait(t, last, oversleep) == t

\* LLMService._rate_limit: the value last_call_time gets, the call entering
\* at time t; time.sleep may return up to oversleep ticks late
_rate_limit(t, last, oversleep) ==
    LET elapsed == t - last
    IN  IF elapsed < min_call_interval
        THEN t + (min_call_interval - elapsed) + oversleep
        ELSE t

\* mutant: the seconds wording starts at the short threshold itself
idle_desc_from_threshold(idle_ms) ==
    IF idle_ms > IDLE_LONG_MS
    THEN [form |-> "min_sec", min |-> idle_ms \div IDLE_LONG_MS,
          sec |-> (idle_ms % IDLE_LONG_MS) \div 1000]
    ELSE IF idle_ms >= IDLE_SHORT_MS
    THEN [form |-> "sec", min |-> 0, sec |-> idle_ms \div 1000]
    ELSE [form |-> "active", min |-> 0, sec |-> 0]

\* the idle-time bucket of the context prompt
idle_desc(idle_ms) ==
    IF idle_ms > IDLE_LONG_MS
    THEN [form |-> "min_sec", min |-> idle_ms \div IDLE_LONG_MS,
          sec |-> (idle_ms % IDLE_LONG_MS) \div 1000]
    ELSE IF idle_ms > IDLE_SHORT_MS
    THEN [form |-> "sec", min |-> 0, sec |-> idle_ms \div 1000]
    ELSE [form |-> "active", min |-> 0, sec |-> 0]

\* LLMService._build_context_prompt; None > IDLE_LONG_MS is a TypeError
_build_context_prompt(tk, observations) ==
    IF observations.idle_ms = None THEN Raise("TypeError")
    ELSE [kind |-> "prompt",
          task |-> tk,
          app |-> OrElse(observations.active_app, S_unknown),
          window |-> Take(OrElse(observations.title, <<>>), 80),
          url |-> IF Truthy(observations.url)
                  THEN Take(observations.url[1], 80) ELSE S_NA,
          status |-> idle_desc(observations.idle_ms[1]),
          screenshot |-> Truthy(observations.screenshot)]

\* str(n) of a non-negative integer
RECURSIVE Digits(_)
Digits(n) ==
    IF n < 10
    THEN <<<<"0", "1", "2", "3", "4", "5", "6", "7", "8", "9">>[n + 1]>>
    ELSE Digits(n \div 10) \o Digits(n % 10)

\* the text of the idle bucket: "active", "7sec idle", "2min 5sec idle"
StatusText(d) ==
    IF d.form = "active" THEN <<"a", "c", "t", "i", "v", "e">>
    ELSE IF d.form = "sec" THEN Digits(d.sec) \o <<"s", "e", "c", " ", "i", "d", "l", "e">>
    ELSE Digits(d.min) \o <<"m", "i", "n", " ">> \o Digits(d.sec) \o <<"s", "e", "c", " ", "i", "d", "l", "e">>

\* the closing instructions of the template, wrapped differently in the two
\* engines
PromptTail(v) ==
    IF v = "static"
    THEN <<"\n", "\n", "P", "l", "e", "a", "s", "e", " ", "a", "n", "a">>
         \o <<"l", "y", "z", "e", " ", "t", "h", "e", " ", "s", "c", "r">>
         \o <<"e", "e", "n", "s", "h", "o", "t", " ", "(", "i", "f", " ">>
         \o <<"a", "v", "a", "i", "l", "a", "b", "l", "e", ")", " ", "t">>
         \o <<"o", " ", "d", "e", "t", "e", "r", "m", "i", "n", "e", "\n">>
         \o <<"i", "f", " ", "t", "h", "e", " ", "u", "s", "e", "r", " ">>
         \o <<"i", "s", " ", "f", "o", "c", "u", "s", "e", "d", " ", "o">>
         \o <<"n", " ", "t", "h", "e", "i", "r", " ", "t", "a", "s", "k">>
         \o <<" ", "o", "r", " ", "b", "e", "i", "n", "g", " ", "d", "i">>
         \o <<"s", "t", "r", "a", "c", "t", "e", "d", ".", "\n", "D", "e">>
         \o <<"c", "i", "d", "e", " ", "t", "h", "e", " ", "b", "e", "s">>
         \o <<"t", " ", "n", "u", "d", "g", "i", "n", "g", " ", "a", "c">>
         \o <<"t", "i", "o", "n", " ", "n", "o", "w", ".">>
    ELSE <<"\n", "\n", "P", "l", "e", "a", "s", "e", " ", "a", "n", "a">>
         \o <<"l", "y", "z", "e", " ", "t", "h", "e", " ", "s", "c", "r">>
         \o <<"e", "e", "n", "s", "h", "o", "t", " ", "(", "i", "f", " ">>
         \o <<"a", "v", "a", "i", "l", "a", "b", "l", "e", ")", " ", "t">>
         \o <<"o", " ", "d", "e", "t", "e", "r", "m", "i", "n", "e", " ">>
         \o <<"i", "f", " ", "t", "h", "e", " ", "u", "s", "e", "r", " ">>
         \o <<"i", "s", " ", "f", "o", "c", "u", "s", "e", "d", " ", "o">>
         \o <<"n", " ", "t", "h", "e", "i", "r", " ", "t", "a", "s", "k">>
         \o <<" ", "o", "r", " ", "b", "e", "i", "n", "g", " ", "d", "i">>
         \o <<"s", "t", "r", "a", "c", "t", "e", "d", ".", "\n", "D", "e">>
         \o <<"c", "i", "d", "e", " ", "t", "h", "e", " ", "b", "e", "s">>
         \o <<"t", " ", "n", "u", "d", "g", "i", "n", "g", " ", "a", "c">>
         \o <<"t", "i", "o", "n", " ", "n", "o", "w", ".">>

\* the f-string of _build_context_prompt, after .strip()
PromptText(v, p) ==
    <<"T", "a", "s", "k", ":", " ">> \o p.task
    \o <<"\n", "C", "u", "r", "r", "e", "n", "t", " ", "A", "c", "t", "i", "v", "i", "t", "y", ":", "\n", "-", " ", "A", "p", "p", ":", " ">> \o p.app
    \o <<"\n", "-", " ", "W", "i", "n", "d", "o", "w", ":", " ">> \o p.window
    \o <<"\n", "-", " ", "U", "R", "L", ":", " ">> \o p.url
    \o <<"\n", "-", " ", "S", "t", "a", "t", "u", "s", ":", " ">> \o StatusText(p.status)
    \o <<"\n", "-", " ", "S", "c", "r", "e", "e", "n", "s", "h", "o", "t", ":", " ">>
    \o (IF p.screenshot THEN <<"A", "v", "a", "i", "l", "a", "b", "l", "e">> ELSE <<"N", "o", "t", " ", "a", "v", "a", "i", "l", "a", "b", "l", "e">>)
    \o PromptTail(v)

NoSent == [kind |-> "none"]

(***************************************************************************)
(* The remote decision call                                                *)
(***************************************************************************)
\* mutant: the remote object's own confidence is passed on when it has one
ParsedPolicy_remote_confidence(policy_data) ==
    NudgingPolicy(DictGet(policy_data, "action", PyStr("gentle_nudge")),
                  DictGet(policy_data, "reason", PyStr("LLM decision")),
                  DictGet(policy_data, "tip", PyNone),
                  IF policy_data.confidence = Absent THEN 8 ELSE 1)

\* the policy built from the parsed JSON object
ParsedPolicy(policy_data) ==
    NudgingPolicy(DictGet(policy_data, "action", PyStr("gentle_nudge")),
                  DictGet(policy_data, "reason", PyStr("LLM decision")),
                  DictGet(policy_data, "tip", PyNone),
                  8)

\* response.json() and response_data["choices"][0]["message"]["content"].strip();
\* a body that is not JSON raises requests.exceptions.JSONDecodeError, which
\* derives from RequestException; a missing key, an empty list or a null
\* content raises a builtin error
ContentLookup(body) ==
    CASE body.kind = "not_json"       -> Raise("RequestsJSONDecodeError")
      [] body.kind = "not_dict"       -> Raise("TypeError")
      [] body.kind = "no_choices"     -> Raise("KeyError")
      [] body.kind = "empty_choices"  -> Raise("IndexError")
      [] body.kind = "no_message"     -> Raise("KeyError")
      [] body.kind = "no_content"     -> Raise("KeyError")
      [] body.kind = "null_content"   -> Raise("AttributeError")
      [] body.kind = "chat"           -> [kind |-> "content", content |-> body.content]

\* from requests.post to the first return or raise inside the try block;
\* "http_error" and "parse_error" are the two places where the engines differ
post_and_parse(rp) ==
    CASE rp.kind = "Timeout"         -> Raise("Timeout")
      [] rp.kind = "ConnectionError" -> Raise("ConnectionError")
      [] rp.kind = "response" ->
            IF rp.status # HTTP_OK THEN [kind |-> "http_error"]
            ELSE LET c == ContentLookup(rp.body)
                 IN  IF c.kind = "raise" THEN c
                     ELSE IF c.content.kind = "invalid" THEN [kind |-> "parse_error"]
                     ELSE IF c.content.kind = "object" THEN ParsedPolicy(c.content.data)
                     ELSE Raise("AttributeError")

\* requests.exceptions classes derived from RequestException
IsRequestException(exc) ==
    exc \in {"Timeout", "ConnectionError", "RequestsJSONDecodeError"}

Quiet(reason) == NudgingPolicy(PyStr("quiet"), PyStr(reason), PyNone, 0)

\* mutant: a parse error is reported with the confidence of a parsed decision
static_handlers_parse_error_confident(outcome) ==
    CASE outcome.kind = "policy"      -> outcome
      [] outcome.kind = "http_error"  -> Quiet("LLM error")
      [] outcome.kind = "parse_error" ->
            NudgingPolicy(PyStr("quiet"), PyStr("LLM parse error"), PyNone, 8)
      [] outcome.kind = "raise" ->
            IF outcome.exc = "Timeout" THEN Quiet("LLM timeout")
            ELSE IF IsRequestException(outcome.exc) THEN Quiet("LLM exception")
            ELSE outcome

\* engine "static": the returns and except clauses around the remote call
static_handlers(outcome) ==
    CASE outcome.kind = "policy"      -> outcome
      [] outcome.kind = "http_error"  -> Quiet("LLM error")
      [] outcome.kind = "parse_error" -> Quiet("LLM parse error")
      [] outcome.kind = "raise" ->
            IF outcome.exc = "Timeout" THEN Quiet("LLM timeout")
            ELSE IF IsRequestException(outcome.exc) THEN Quiet("LLM exception")
            ELSE outcome

\* engine "rules": every failure, whatever its class, goes to _fallback_policy
rules_handlers(outcome, observations) ==
    IF outcome.kind = "policy" THEN outcome ELSE _fallback_policy(observations)

\* mutant: the static engine answers an unreachable service with the
\* dataclass default confidence
unavailable_policy_default_confidence(v, observations) ==
    IF v = "static"
    THEN NudgingPolicy(PyStr("quiet"), PyStr("LLM unavailable"), PyNone, 5)
    ELSE _fallback_policy(observations)

\* the branch taken when is_available() is false
unavailable_policy(v, observations) ==
    IF v = "static"
    THEN NudgingPolicy(PyStr("quiet"), PyStr("LLM unavailable"), PyNone, 0)
    ELSE _fallback_policy(observations)

\* LLMService.decide_nudging_policy, entered at time t: what it returns or
\* raises, the POSTs it issued, and the limiter state it leaves
decide_nudging_policy(v, t, last, tk, observations, pr, rp, oversleep) ==
    IF ~is_available(pr)
    THEN [result |-> unavailable_policy(v, observations), posts |-> 0,
          limited |-> FALSE, last |-> last, sent |-> NoSent]
    ELSE LET pass == _rate_limit(t, last, oversleep)
             context_prompt == _build_context_prompt(tk, observations)
             outcome == IF context_prompt.kind = "raise" THEN context_prompt
                        ELSE post_and_parse(rp)
         IN  [result |-> IF v = "static" THEN static_handlers(outcome)
                         ELSE rules_handlers(outcome, observations),
              posts |-> IF context_prompt.kind = "raise" THEN 0 ELSE 1,
              limited |-> TRUE, last |-> pass,
              sent |-> IF context_prompt.kind = "raise" THEN NoSent
                       ELSE [kind |-> "payload", text |-> context_prompt,
                             image |-> Truthy(observations.screenshot)]]

\* LLMService.generate_task_suggestions (engine "rules" only): whether the
\* remote plan or the canned one is returned
generate_task_suggestions(t, last, pr, rp, oversleep) ==
    IF ~is_available(pr)
    THEN [result |-> [kind |-> "suggestions", source |-> "fallback"],
          posts |-> 0, limited |-> FALSE, last |-> last]
    ELSE LET c == IF rp.kind = "response" /\ rp.status = HTTP_OK
                  THEN ContentLookup(rp.body) ELSE Raise("none")
             parsed == c.kind = "content" /\ c.content.kind # "invalid"
         IN  [result |-> [kind |-> "suggestions",
                          source |-> IF parsed THEN "llm" ELSE "fallback"],
              posts |-> 1, limited |-> TRUE,
              last |-> _rate_limit(t, last, oversleep)]

(***************************************************************************)
(* Inputs                                                                  *)
(***************************************************************************)
MaxPasses == 2

Variants == {"static", "rules"}

Observation(app, title, url, idle_ms, phone_detected, screenshot) ==
    [active_app |-> app, title |-> title, url |-> url, idle_ms |-> idle_ms,
     phone_detected |-> phone_detected, screenshot |-> screenshot,
     ocr |-> Some(<<>>)]

\* the same observation carrying an OCR snippet
WithOcr(o, text) == [o EXCEPT !.ocr = Some(text)]

\* Code.exe, "main.py - editor", idle 1000 ms, no phone
ObsEditor ==
    Observation(Some(S_Code_exe), Some(S_main_editor), Some(<<>>), Some(1000),
                FALSE, None)

\* chrome.exe, "Funny Cats - YouTube", a youtube URL, phone in use
ObsYouTubePhone ==
    Observation(Some(S_chrome_exe), Some(S_FunnyCats), Some(S_youtube_url),
                Some(500), TRUE, None)

\* idle for 400000 ms on the desktop
ObsLongIdle ==
    Observation(None, Some(S_Desktop), Some(<<>>), Some(400000), FALSE, None)

\* an Event whose idle_ms is an explicit null
ObsNullIdle ==
    Observation(Some(S_Code_exe), Some(S_main_VSCode), None, None, FALSE, None)

\* an Event carrying a screenshot
ObsScreenshot ==
    Observation(Some(S_chrome_exe), Some(S_reddit), Some(<<>>), Some(6000),
                FALSE, Some(S_b64))

\* Code.exe, "main.py - VSCode", idle for 10000 ms
ObsIdleEditor ==
    Observation(Some(S_Code_exe), Some(S_main_VSCode), Some(<<>>), Some(10000),
                FALSE, None)

DecideObservations ==
    {ObsEditor, ObsYouTubePhone, ObsLongIdle, ObsNullIdle, ObsScreenshot}

FallbackObservations ==
    { Observation(a, t, u, i, p, s) :
        a \in {None, Some(S_Code_exe), Some(S_chrome_exe)},
        t \in {None, Some(<<>>), Some(S_main_editor), Some(S_main_VSCode),
               Some(S_FunnyCats), Some(S_YOUTUBE), Some(S_Desktop),
               Some(S_reddit)},
        u \in {Some(<<>>), Some(S_youtube_url)},
        i \in {None, Some(0), Some(1000), Some(300000), Some(300001),
               Some(400000)},
        p \in BOOLEAN,
        s \in {None, Some(S_b64)} }

S_task == <<"w", "r", "i", "t", "e", " ", "r", "e", "p", "o", "r", "t">>

Tasks == {S_task}

Probes ==
    {[kind |-> "status", code |-> c] : c \in {200, 204, 503}}
        \cup {[kind |-> "RequestException", code |-> 0]}

RemoteActions ==
    {Absent, PyStr("quiet"), PyStr("gentle_nudge"), PyStr("strong_nudge"),
     PyStr("dance"), PyNum("42"), PyNone}

PolicyObjects ==
    {[action |-> a, reason |-> Absent, tip |-> Absent, confidence |-> Absent] :
        a \in RemoteActions}
    \cup
    {[action |-> a, reason |-> PyStr("Productive coding"),
      tip |-> PyStr("Keep up the good work!"), confidence |-> PyNum("0.1")] :
        a \in RemoteActions}

NoData == [action |-> Absent, reason |-> Absent, tip |-> Absent, confidence |-> Absent]

Contents ==
    {[kind |-> k, data |-> NoData] : k \in {"invalid", "array", "null"}}
        \cup {[kind |-> "object", data |-> d] : d \in PolicyObjects}

NoContent == [kind |-> "none", data |-> NoData]

Bodies ==
    {[kind |-> k, content |-> NoContent] :
        k \in {"not_json", "not_dict", "no_choices", "empty_choices",
               "no_message", "no_content", "null_content"}}
        \cup {[kind |-> "chat", content |-> c] : c \in Contents}

NoBody == [kind |-> "none", content |-> NoContent]

Replies ==
    {[kind |-> k, status |-> 0, body |-> NoBody] : k \in {"Timeout", "ConnectionError"}}
        \cup {[kind |-> "response", status |-> c, body |-> NoBody] : c \in {201, 500}}
        \cup {[kind |-> "response", status |-> 200, body |-> b] : b \in Bodies}

NoReply == [kind |-> "none", status |-> 0, body |-> NoBody]
NoProbe == [kind |-> "none", code |-> 0]
NoObs == Observation(None, None, None, None, FALSE, None)

(***************************************************************************)
(* Service factory                                                         *)
(***************************************************************************)
S_localhost == <<"h", "t", "t", "p", ":", "/", "/", "l", "o", "c", "a", "l", "h", "o", "s", "t", ":", "8", "0", "0", "0">>
S_gpt_oss == <<"g", "p", "t", "-", "o", "s", "s", "-", "2", "0", "b">>
S_llm_url == <<"h", "t", "t", "p", ":", "/", "/", "l", "l", "m", ":", "1", "/">>
S_env_url == <<"h", "t", "t", "p", ":", "/", "/", "e", "n", "v", ":", "2">>
S_gemma == <<"g", "e", "m", "m", "a">>
S_env_model == <<"q", "w", "e", "n">>

\* s.rstrip("/")
RECURSIVE RstripSlash(_)
RstripSlash(s) ==
    IF s # <<>> /\ s[Len(s)] = "/" THEN RstripSlash(SubSeq(s, 1, Len(s) - 1))
    ELSE s

\* LLMService.__init__: the instance's endpoint and model
LLMService(base_url, model_name) ==
    [kind |-> "LLMService", base_url |-> RstripSlash(base_url),
     model_name |-> model_name]

\* x or os.getenv(name): the argument if truthy, else the environment's value
OrEnv(x, e) == IF Truthy(x) THEN x ELSE e

\* mutant: the fail-fast factory falls back to the local default endpoint
create_llm_service_local_default(v, base_url, model_name, env) ==
    IF v = "static"
    THEN LET resolved_base == OrEnv(OrEnv(base_url, env.LLM_URL), Some(S_localhost))
             resolved_model == OrEnv(model_name, env.LLM_MODEL)
         IN  IF ~Truthy(resolved_base) \/ ~Truthy(resolved_model)
             THEN Raise("RuntimeError")
             ELSE LLMService(resolved_base[1], resolved_model[1])
    ELSE LLMService(IF base_url = None THEN S_localhost ELSE base_url[1],
                    S_gpt_oss)

\* create_llm_service of either engine; an argument left out is None, env
\* holds os.getenv("LLM_URL") and os.getenv("LLM_MODEL").  The rule-based
\* engine's factory has no model_name parameter and reads no environment.
create_llm_service(v, base_url, model_name, env) ==
    IF v = "static"
    THEN LET resolved_base == OrEnv(base_url, env.LLM_URL)
             resolved_model == OrEnv(model_name, env.LLM_MODEL)
         IN  IF ~Truthy(resolved_base) \/ ~Truthy(resolved_model)
             THEN Raise("RuntimeError")
             ELSE LLMService(resolved_base[1], resolved_model[1])
    ELSE LLMService(IF base_url = None THEN S_localhost ELSE base_url[1],
                    S_gpt_oss)

(***************************************************************************)
(* The API process: State and its request handlers                         *)
(***************************************************************************)
\* STATE["focus_target"] at import time (the Japanese for "general work")
S_general_work == <<"g", "e", "n", "e", "r", "a", "l", " ", "w", "o", "r", "k">>
S_padded == <<" ", "d", "o", "c", "s", " ">>
S_blank == <<" ", "\t", " ">>

LOGS_MAXLEN == 100

\* the module-level State dictionary
STATE0 ==
    [focus_target |-> S_general_work, productive |-> TRUE, last_nudge |-> None,
     llm_service |-> None, last_event |-> None, logs |-> <<>>]

\* log_message: append to deque(maxlen=100), the oldest entry dropping out
log_message(state, message) ==
    LET logs == Append(state.logs, message)
    IN  [state EXCEPT !.logs = IF Len(logs) > LOGS_MAXLEN THEN Tail(logs) ELSE logs]

\* characters str.strip() removes
IsSpace(c) == c \in {" ", "\t", "\n", "\r"}

\* v.strip()
Strip(v) ==
    LET kept == {i \in 1..Len(v) : ~IsSpace(v[i])}
    IN  IF kept = {} THEN <<>>
        ELSE SubSeq(v, CHOOSE i \in kept : \A j \in kept : i <= j,
                       CHOOSE i \in kept : \A j \in kept : j <= i)

\* mutant: the validator tests the raw value only and never strips it
target_must_not_be_empty_raw(v) ==
    IF v = None THEN Raise("ValidationError")
    ELSE IF v[1] = <<>> THEN Raise("ValidationError")
    ELSE [kind |-> "value", target |-> v[1]]

\* FocusUpdate: target must be a string, and the validator refuses an empty
\* or all-whitespace one; the accepted value is passed on as it came
target_must_not_be_empty(v) ==
    IF v = None THEN Raise("ValidationError")
    ELSE IF v[1] = <<>> \/ Strip(v[1]) = <<>> THEN Raise("ValidationError")
    ELSE [kind |-> "value", target |-> v[1]]

\* dataclasses.asdict(policy)
asdict(policy) ==
    [action |-> policy.action, reason |-> policy.reason, tip |-> policy.tip,
     confidence |-> policy.confidence]

\* mutant: a new target also marks the session productive again
update_focus_target_resets_flag(state, target) ==
    log_message([state EXCEPT !.focus_target = target, !.productive = TRUE],
                [msg |-> "Focus target updated to", target |-> target])

\* update_focus_target: the handler body, run on a validated request
update_focus_target(state, target) ==
    log_message([state EXCEPT !.focus_target = target],
                [msg |-> "Focus target updated to", target |-> target])

\* mutant: every action that is not one of the two nudges counts as productive
is_productive_unless_nudge(policy) ==
    policy.action \notin {PyStr("gentle_nudge"), PyStr("strong_nudge")}

\* _evaluate_productivity_by_ai: the judgement drawn from the policy
is_productive(policy) == policy.action = PyStr("quiet")

\* mutant: the observation is stored only for a policy that nudges
ingest_state_event_on_nudge(state, event, policy) ==
    log_message([state EXCEPT !.productive = is_productive(policy),
                              !.last_nudge = Some(asdict(policy)),
                              !.last_event = IF is_productive(policy)
                                             THEN state.last_event ELSE Some(event)],
                [msg |-> "Event processed",
                 productive |-> is_productive(policy),
                 action |-> policy.action,
                 sc_len |-> IF Truthy(event.screenshot)
                            THEN Len(event.screenshot[1]) ELSE 0])

\* ingest_event after the decision: the three assignments and the log line
ingest_state(state, event, policy) ==
    log_message([state EXCEPT !.productive = is_productive(policy),
                              !.last_nudge = Some(asdict(policy)),
                              !.last_event = Some(event)],
                [msg |-> "Event processed",
                 productive |-> is_productive(policy),
                 action |-> policy.action,
                 sc_len |-> IF Truthy(event.screenshot)
                            THEN Len(event.screenshot[1]) ELSE 0])

\* get_current_status: State without llm_service, logs and last_event
get_current_status(state) ==
    [kind |-> "status", focus_target |-> state.focus_target,
     productive |-> state.productive, last_nudge |-> state.last_nudge]

\* get_monitoring_data (the pump log file is outside the process state)
get_monitoring_data(state) ==
    [kind |-> "monitoring", last_event |-> state.last_event,
     last_nudge |-> state.last_nudge, logs |-> state.logs,
     focus_target |-> state.focus_target, productive |-> state.productive]

\* HTTP answers of the API
HTTPError(code) == [kind |-> "error", code |-> code]
NoResponse == [kind |-> "none"]
NoRequest == [kind |-> "none"]

MaxRequests == 2

(***************************************************************************)
(* The session engine: a task with a goal, and the ticker that credits it  *)
(***************************************************************************)
S_test_task == <<"t", "e", "s", "t", "_", "t", "a", "s", "k">>

MaxTicks == 6

\* the current task of a session
Session(id, goal, accum) == [id |-> id, goal |-> goal, accum |-> accum]

\* the session fields of the record with no task running
NoSession(tick_sec) == [current_task |-> None, done |-> None, tick_sec |-> tick_sec]

\* what the history holds for a session just installed
Fresh(t) ==
    [id |-> t.id, goal |-> t.goal, start |-> t.accum, ticks |-> 0, idle |-> 0]

NoTicks == [id |-> <<>>, goal |-> 0, start |-> 0, ticks |-> 0, idle |-> 0]

\* POST /focus/start: an empty task id or a duration that is not positive is
\* a validation error; otherwise the task replaces the current one, its
\* goal in seconds and nothing accumulated
focus_start(sess, task_id, minutes) ==
    IF ~Truthy(task_id) \/ minutes = None THEN Raise("ValidationError")
    ELSE IF minutes[1] <= 0 THEN Raise("ValidationError")
    ELSE [sess EXCEPT !.current_task = Some(Session(task_id[1], minutes[1] * 60, 0))]

\* mutant: the ticker credits every tick, productive or not
ticker_credits_every_tick(sess, productive) ==
    IF sess.current_task = None THEN sess
    ELSE LET t == sess.current_task[1]
             accum == t.accum + sess.tick_sec
         IN  IF accum >= t.goal
             THEN [sess EXCEPT !.done = Some(t.id), !.current_task = None]
             ELSE [sess EXCEPT !.current_task = Some([t EXCEPT !.accum = accum])]

\* mutant: the session ends only once the accumulated time is past the goal
ticker_past_goal(sess, productive) ==
    IF sess.current_task = None THEN sess
    ELSE LET t == sess.current_task[1]
             accum == IF productive THEN t.accum + sess.tick_sec ELSE t.accum
         IN  IF accum > t.goal
             THEN [sess EXCEPT !.done = Some(t.id), !.current_task = None]
             ELSE [sess EXCEPT !.current_task = Some([t EXCEPT !.accum = accum])]

\* one tick: credit the tick interval if the productive flag is set, then
\* mark the task done and clear it once the goal is reached
ticker(sess, productive) ==
    IF sess.current_task = None THEN sess
    ELSE LET t == sess.current_task[1]
             accum == IF productive THEN t.accum + sess.tick_sec ELSE t.accum
         IN  IF accum >= t.goal
             THEN [sess EXCEPT !.done = Some(t.id), !.current_task = None]
             ELSE [sess EXCEPT !.current_task = Some([t EXCEPT !.accum = accum])]

(***************************************************************************)
(* Tasks of the event loop                                                 *)
(***************************************************************************)
IngestTasks == {"ingest_1", "ingest_2"}

\* two ingestion requests, a focus update, a monitoring read, the ticker
Procs == IngestTasks \cup {"focus", "monitor", "ticker"}

NoLocals ==
    [arg |-> None, policy |-> NoResult, seen |-> <<>>, response |-> NoResponse,
     productive |-> FALSE]

\* mutant: a task can be set aside between any two statements, as handlers
\* run on worker threads are
awaits_anywhere(position) == TRUE

\* whether a task at this statement has handed control back to the event
\* loop: the handlers are async functions without an await, so only a task
\* not started, a finished one and the ticker asleep have
awaits(position) == position \in {"idle", "done", "sleep"}

\* the event loop runs a step of task c only while no other task is midway
CanRun(c) == \A o \in Procs \ {c} : awaits(pc[o])

\* the API process right after import, before any request
\* NotificationService.__init__ with max_history as given (the constructor
\* sets 100, test_history_size_limit assigns 3)
NotificationService(max_history) ==
    [notification_history |-> <<>>, max_history |-> max_history,
     last_notification_time |-> 0]

NoNotifier == NotificationService(0)

\* no EventPump built; no run_once cycle started
NoPump == [kind |-> "none"]
NoCycles == [started |-> 0, completed |-> 0, ok |-> 0, raised |-> 0]

AuxInit ==
    /\ notifier = NoNotifier
    /\ attempts = <<>>
    /\ pump = NoPump
    /\ cycles = NoCycles

ApiInit ==
    /\ State = STATE0
    /\ request = NoRequest
    /\ response = NoResponse
    /\ ingested = None
    /\ served = 0
    /\ session = NoSession(2)
    /\ ticked = NoTicks
    /\ pc = [c \in Procs |-> IF c = "ticker" THEN "sleep" ELSE "idle"]
    /\ locals = [c \in Procs |-> NoLocals]
    /\ AuxInit

(***************************************************************************)
(* The service as a state machine                                          *)
(***************************************************************************)
\* LLMService.__init__; the clock is already past the first interval
Init ==
    /\ variant \in Variants
    /\ now = min_call_interval
    /\ last_call_time = 0
    /\ prev_pass = 0
    /\ passes = 0
    /\ op = "__init__"
    /\ task = <<>>
    /\ obs = NoObs
    /\ probe = NoProbe
    /\ reply = NoReply
    /\ sent = NoSent
    /\ posts = 0
    /\ limited = FALSE
    /\ arrived = 0
    /\ result = NoResult
    /\ ApiInit

\* time passes between two calls
Tick ==
    /\ UNCHANGED auxVars
    /\ now < MaxTime
    /\ now' = now + 1
    /\ UNCHANGED <<variant, last_call_time, prev_pass, passes, op, task, obs,
                   probe, reply, sent, posts, limited, arrived, result>>
    /\ UNCHANGED apiVars

\* the limiter bookkeeping of a call that ended as d
LimiterStep(d) ==
    /\ d.last <= MaxTime
    /\ limited' = d.limited
    /\ last_call_time' = d.last
    /\ now' = IF d.limited THEN d.last ELSE now
    /\ prev_pass' = IF d.limited THEN last_call_time ELSE prev_pass
    /\ arrived' = IF d.limited THEN now ELSE arrived
    /\ passes' = IF d.limited /\ passes < MaxPasses THEN passes + 1 ELSE passes

\* time.sleep is reached only by an available call that arrives early
Oversleeps(pr) ==
    IF is_available(pr) /\ now - last_call_time < min_call_interval
    THEN 0..MaxOversleep ELSE {0}

\* one call of decide_nudging_policy
Decide ==
    /\ UNCHANGED auxVars
    /\ \E tk \in Tasks, o \in DecideObservations, pr \in Probes :
        \E rp \in IF is_available(pr) THEN Replies ELSE {NoReply},
           j \in Oversleeps(pr) :
            \E d \in {decide_nudging_policy(variant, now, last_call_time,
                                           tk, o, pr, rp, j)} :
                /\ LimiterStep(d)
                /\ op' = "decide_nudging_policy"
                /\ task' = tk
                /\ obs' = o
                /\ probe' = pr
                /\ reply' = IF d.posts = 1 THEN rp ELSE NoReply
                /\ sent' = d.sent
                /\ posts' = d.posts
                /\ result' = d.result
                /\ UNCHANGED variant
                /\ UNCHANGED apiVars

\* one call of generate_task_suggestions
Suggest ==
    /\ UNCHANGED auxVars
    /\ variant = "rules"
    /\ \E pr \in Probes :
        \E rp \in IF is_available(pr) THEN Replies ELSE {NoReply},
           j \in Oversleeps(pr) :
            \E d \in {generate_task_suggestions(now, last_call_time, pr, rp, j)} :
                /\ LimiterStep(d)
                /\ op' = "generate_task_suggestions"
                /\ task' = S_task
                /\ obs' = NoObs
                /\ probe' = pr
                /\ reply' = rp
                /\ sent' = NoSent
                /\ posts' = d.posts
                /\ result' = d.result
                /\ UNCHANGED variant
                /\ UNCHANGED apiVars

Next == Tick \/ Decide \/ Suggest

Spec == Init /\ [][Next]_vars

(***************************************************************************)
(* _fallback_policy on its own                                             *)
(***************************************************************************)
InitFallback ==
    /\ variant = "rules"
    /\ now = min_call_interval
    /\ last_call_time = 0
    /\ prev_pass = 0
    /\ passes = 0
    /\ op = "__init__"
    /\ task = <<>>
    /\ obs \in FallbackObservations
    /\ probe = NoProbe
    /\ reply = NoReply
    /\ sent = NoSent
    /\ posts = 0
    /\ limited = FALSE
    /\ arrived = 0
    /\ result = NoResult
    /\ ApiInit

\* _fallback_policy(observations) called directly
FallbackCall ==
    /\ UNCHANGED auxVars
    /\ op = "__init__"
    /\ op' = "_fallback_policy"
    /\ result' = _fallback_policy(obs)
    /\ UNCHANGED <<variant, now, last_call_time, prev_pass, passes, task, obs,
                   probe, reply, sent, posts, limited, arrived>>
    /\ UNCHANGED apiVars

NextFallback == FallbackCall

SpecFallback == InitFallback /\ [][NextFallback]_vars

(***************************************************************************)
(* The API process as a state machine.  Every handler is an async function *)
(* without an await, so the event loop runs it from start to end.          *)
(***************************************************************************)
Envs ==
    {[LLM_URL |-> Some(S_env_url), LLM_MODEL |-> m] : m \in {None, Some(S_env_model)}}

ApiEvents == {ObsEditor, ObsYouTubePhone, ObsNullIdle, ObsIdleEditor}

ApiProbes == {[kind |-> "status", code |-> c] : c \in {200, 503}}

ObjectReply(a) ==
    [kind |-> "response", status |-> 200,
     body |-> [kind |-> "chat",
               content |-> [kind |-> "object",
                            data |-> [action |-> a, reason |-> Absent,
                                      tip |-> Absent, confidence |-> Absent]]]]

ApiReplies ==
    {[kind |-> "Timeout", status |-> 0, body |-> NoBody]}
        \cup {ObjectReply(PyStr(a)) : a \in {"quiet", "strong_nudge", "dance"}}

FocusTargets == {None, Some(<<>>), Some(S_blank), Some(S_task), Some(S_padded)}

\* startup_event: install the service, probe it once, log the outcome; a
\* factory error ends the start-up with nothing installed
Startup ==
    /\ UNCHANGED auxVars
    /\ op = "__init__"
    /\ \E env \in Envs, pr \in Probes :
        \E svc \in {create_llm_service(variant, None, None, env)} :
            /\ op' = "startup_event"
            /\ request' = [kind |-> "env", env |-> env]
            /\ IF svc.kind = "raise"
               THEN /\ response' = svc
                    /\ UNCHANGED <<State, probe>>
               ELSE /\ response' = NoResponse
                    /\ probe' = pr
                    /\ State' = log_message(
                           [State EXCEPT !.llm_service = Some(svc)],
                           [msg |-> "LLM Service Available",
                            is_ready |-> is_available(pr)])
    /\ UNCHANGED <<variant, now, last_call_time, prev_pass, passes, task, obs,
                   reply, sent, posts, limited, arrived, result>>
    /\ UNCHANGED <<ingested, served, session, ticked>>
    /\ UNCHANGED <<pc, locals>>

\* POST /focus/update
UpdateFocus ==
    /\ UNCHANGED auxVars
    /\ served < MaxRequests
    /\ \E target \in FocusTargets :
        \E v \in {target_must_not_be_empty(target)} :
            /\ request' = [kind |-> "focus", target |-> target]
            /\ IF v.kind = "raise"
               THEN /\ response' = HTTPError(422)
                    /\ UNCHANGED State
               ELSE /\ response' = [kind |-> "ok", focus_target |-> v.target]
                    /\ State' = update_focus_target(State, v.target)
    /\ op' = "update_focus_target"
    /\ served' = served + 1
    /\ UNCHANGED <<variant, now, last_call_time, prev_pass, passes, task, obs,
                   probe, reply, sent, posts, limited, arrived, result>>
    /\ UNCHANGED <<ingested, session, ticked>>
    /\ UNCHANGED <<pc, locals>>

\* POST /events with no service installed
\* mutant: the rejection is written to the log
IngestNoService_logged ==
    /\ UNCHANGED auxVars
    /\ served < MaxRequests
    /\ State.llm_service = None
    /\ \E event \in ApiEvents : request' = [kind |-> "event", event |-> event]
    /\ response' = HTTPError(503)
    /\ op' = "ingest_event"
    /\ served' = served + 1
    /\ State' = log_message(State, [msg |-> "LLM Service not available"])
    /\ UNCHANGED <<variant, now, last_call_time, prev_pass, passes, task, obs,
                   probe, reply, sent, posts, limited, arrived, result>>
    /\ UNCHANGED <<ingested, session, ticked>>
    /\ UNCHANGED <<pc, locals>>

IngestNoService ==
    /\ UNCHANGED auxVars
    /\ served < MaxRequests
    /\ State.llm_service = None
    /\ \E event \in ApiEvents : request' = [kind |-> "event", event |-> event]
    /\ response' = HTTPError(503)
    /\ op' = "ingest_event"
    /\ served' = served + 1
    /\ UNCHANGED <<variant, now, last_call_time, prev_pass, passes, task, obs,
                   probe, reply, sent, posts, limited, arrived, result>>
    /\ UNCHANGED <<State, ingested, session, ticked>>
    /\ UNCHANGED <<pc, locals>>

\* POST /events with the service installed: the decision call, then the
\* update of State; an error raised by the decision call leaves the handler
\* before any assignment and is answered with status 500
IngestDecide ==
    /\ UNCHANGED auxVars
    /\ served < MaxRequests
    /\ State.llm_service # None
    /\ \E event \in ApiEvents, pr \in ApiProbes :
        \E rp \in IF is_available(pr) THEN ApiReplies ELSE {NoReply},
           j \in Oversleeps(pr) :
            \E d \in {decide_nudging_policy(variant, now, last_call_time,
                                           State.focus_target, event, pr, rp, j)} :
                /\ LimiterStep(d)
                /\ request' = [kind |-> "event", event |-> event]
                /\ task' = State.focus_target
                /\ obs' = event
                /\ probe' = pr
                /\ reply' = IF d.posts = 1 THEN rp ELSE NoReply
                /\ sent' = d.sent
                /\ posts' = d.posts
                /\ result' = d.result
                /\ IF d.result.kind = "raise"
                   THEN /\ response' = HTTPError(500)
                        /\ UNCHANGED <<State, ingested>>
                   ELSE /\ State' = ingest_state(State, event, d.result)
                        /\ response' = [kind |-> "ok",
                                        productive |-> is_productive(d.result),
                                        policy |-> State'.last_nudge]
                        /\ ingested' = Some([event |-> event,
                                             productive |-> is_productive(d.result),
                                             policy |-> asdict(d.result)])
    /\ op' = "ingest_event"
    /\ served' = served + 1
    /\ UNCHANGED <<variant, session, ticked, pc, locals>>

Ingest == IngestNoService \/ IngestDecide

\* GET /status
ReadStatus ==
    /\ UNCHANGED auxVars
    /\ served < MaxRequests
    /\ request' = NoRequest
    /\ response' = get_current_status(State)
    /\ op' = "get_current_status"
    /\ served' = served + 1
    /\ UNCHANGED <<variant, now, last_call_time, prev_pass, passes, task, obs,
                   probe, reply, sent, posts, limited, arrived, result>>
    /\ UNCHANGED <<State, ingested, session, ticked>>
    /\ UNCHANGED <<pc, locals>>

\* GET /api/monitoring_data
ReadMonitoring ==
    /\ UNCHANGED auxVars
    /\ served < MaxRequests
    /\ request' = NoRequest
    /\ response' = get_monitoring_data(State)
    /\ op' = "get_monitoring_data"
    /\ served' = served + 1
    /\ UNCHANGED <<variant, now, last_call_time, prev_pass, passes, task, obs,
                   probe, reply, sent, posts, limited, arrived, result>>
    /\ UNCHANGED <<State, ingested, session, ticked>>
    /\ UNCHANGED <<pc, locals>>

NextApi == Startup \/ UpdateFocus \/ Ingest \/ ReadStatus \/ ReadMonitoring

SpecApi == Init /\ [][NextApi]_vars

(***************************************************************************)
(* The session engine next to the ingestion path                           *)
(***************************************************************************)
\* the sessions the ticker is exercised on: none, ten seconds from zero,
\* five seconds with four already accumulated
Sessions ==
    {None, Some(Session(S_test_task, 10, 0)), Some(Session(S_test_task, 5, 4))}

TickSecs == {1, 2}

InitSession ==
    /\ AuxInit
    /\ variant \in Variants
    /\ now = min_call_interval
    /\ last_call_time = 0
    /\ prev_pass = 0
    /\ passes = 0
    /\ op = "__init__"
    /\ task = <<>>
    /\ obs = NoObs
    /\ probe = NoProbe
    /\ reply = NoReply
    /\ sent = NoSent
    /\ posts = 0
    /\ limited = FALSE
    /\ arrived = 0
    /\ result = NoResult
    /\ State = [STATE0 EXCEPT !.llm_service =
                   Some(create_llm_service(variant, Some(S_llm_url), Some(S_gemma),
                                           [LLM_URL |-> None, LLM_MODEL |-> None]))]
    /\ request = NoRequest
    /\ response = NoResponse
    /\ ingested = None
    /\ served = 0
    /\ \E c \in Sessions, n \in TickSecs :
          /\ session = [NoSession(n) EXCEPT !.current_task = c]
          /\ ticked = IF c = None THEN NoTicks ELSE Fresh(c[1])
    /\ pc = [c \in Procs |-> IF c = "ticker" THEN "sleep" ELSE "idle"]
    /\ locals = [c \in Procs |-> NoLocals]

\* POST /focus/start
StartSession ==
    /\ UNCHANGED auxVars
    /\ served < MaxRequests
    /\ \E task_id \in {None, Some(<<>>), Some(S_test_task)},
          minutes \in {None, Some(-1), Some(0), Some(1)} :
        \E started \in {focus_start(session, task_id, minutes)} :
            /\ request' = [kind |-> "start", task_id |-> task_id, minutes |-> minutes]
            /\ IF "kind" \in DOMAIN started
               THEN /\ response' = HTTPError(422)
                    /\ UNCHANGED <<session, ticked>>
               ELSE /\ response' = [kind |-> "ok"]
                    /\ session' = started
                    /\ ticked' = Fresh(started.current_task[1])
    /\ op' = "focus_start"
    /\ served' = served + 1
    /\ UNCHANGED llmVars_but_op
    /\ UNCHANGED <<State, ingested>>
    /\ UNCHANGED <<pc, locals>>

\* the periodic ticker firing once
SessionTick ==
    /\ UNCHANGED auxVars
    /\ ticked.ticks < MaxTicks
    /\ session' = ticker(session, State.productive)
    /\ ticked' = IF session.current_task = None THEN ticked
                 ELSE [ticked EXCEPT !.ticks = @ + 1,
                                     !.idle = IF State.productive THEN @ ELSE @ + 1]
    /\ op' = "ticker"
    /\ UNCHANGED llmVars_but_op
    /\ UNCHANGED <<State, request, response, ingested, served>>
    /\ UNCHANGED <<pc, locals>>

NextSession == StartSession \/ SessionTick \/ IngestDecide

SpecSession == InitSession /\ [][NextSession]_vars

(***************************************************************************)
(* The handlers statement by statement, as tasks of one event loop         *)
(***************************************************************************)
ConcEvents == {ObsEditor, ObsYouTubePhone}

ConcReplies == {ObjectReply(PyStr(a)) : a \in {"quiet", "strong_nudge"}}

InitConc ==
    /\ AuxInit
    /\ variant \in Variants
    /\ now = min_call_interval
    /\ last_call_time = 0
    /\ prev_pass = 0
    /\ passes = 0
    /\ op = "__init__"
    /\ task = <<>>
    /\ obs = NoObs
    /\ probe = NoProbe
    /\ reply = NoReply
    /\ sent = NoSent
    /\ posts = 0
    /\ limited = FALSE
    /\ arrived = 0
    /\ result = NoResult
    /\ State = [STATE0 EXCEPT !.llm_service =
                   Some(create_llm_service(variant, Some(S_llm_url), Some(S_gemma),
                                           [LLM_URL |-> None, LLM_MODEL |-> None]))]
    /\ request = NoRequest
    /\ response = NoResponse
    /\ ingested = None
    /\ served = 0
    /\ session = [NoSession(2) EXCEPT !.current_task = Some(Session(S_test_task, 5, 4))]
    /\ ticked = Fresh(Session(S_test_task, 5, 4))
    /\ pc = [c \in Procs |-> IF c = "ticker" THEN "sleep" ELSE "idle"]
    /\ locals = [c \in Procs |-> NoLocals]

\* a task finishing with an answer
Finish(c, req, resp) ==
    /\ pc' = [pc EXCEPT ![c] = "done"]
    /\ request' = req
    /\ response' = resp
    /\ served' = served + 1

\* ingest_event: llm_service = STATE["llm_service"], 503 if there is none
IngestLookup(c) ==
    /\ UNCHANGED auxVars
    /\ pc[c] = "idle"
    /\ CanRun(c)
    /\ \E event \in ConcEvents :
        IF State.llm_service = None
        THEN /\ locals' = [locals EXCEPT ![c].arg = Some(event),
                                         ![c].response = HTTPError(503)]
             /\ Finish(c, [kind |-> "event", event |-> event], HTTPError(503))
        ELSE /\ locals' = [locals EXCEPT ![c].arg = Some(event)]
             /\ pc' = [pc EXCEPT ![c] = "decide"]
             /\ UNCHANGED <<request, response, served>>
    /\ op' = "ingest_event"
    /\ UNCHANGED llmVars_but_op
    /\ UNCHANGED <<State, ingested, session, ticked>>

\* ingest_event: the decision call, blocking the event loop while it lasts
IngestCall(c) ==
    /\ UNCHANGED auxVars
    /\ pc[c] = "decide"
    /\ CanRun(c)
    /\ \E pr \in ApiProbes :
        \E rp \in IF is_available(pr) THEN ConcReplies ELSE {NoReply},
           j \in Oversleeps(pr) :
            \E d \in {decide_nudging_policy(variant, now, last_call_time,
                                           State.focus_target, locals[c].arg[1],
                                           pr, rp, j)} :
                /\ LimiterStep(d)
                /\ task' = State.focus_target
                /\ obs' = locals[c].arg[1]
                /\ probe' = pr
                /\ reply' = IF d.posts = 1 THEN rp ELSE NoReply
                /\ sent' = d.sent
                /\ posts' = d.posts
                /\ result' = d.result
                /\ IF d.result.kind = "raise"
                   THEN /\ locals' = [locals EXCEPT ![c].response = HTTPError(500)]
                        /\ Finish(c, [kind |-> "event", event |-> locals[c].arg[1]],
                                  HTTPError(500))
                   ELSE /\ locals' = [locals EXCEPT ![c].policy = d.result]
                        /\ pc' = [pc EXCEPT ![c] = "set_productive"]
                        /\ UNCHANGED <<request, response, served>>
    /\ op' = "ingest_event"
    /\ UNCHANGED <<variant, State, ingested, session, ticked>>

\* ingest_event: STATE["productive"] = is_productive
IngestSetProductive(c) ==
    /\ UNCHANGED auxVars
    /\ pc[c] = "set_productive"
    /\ CanRun(c)
    /\ State' = [State EXCEPT !.productive = is_productive(locals[c].policy)]
    /\ pc' = [pc EXCEPT ![c] = "set_last_nudge"]
    /\ op' = "ingest_event"
    /\ UNCHANGED llmVars_but_op
    /\ UNCHANGED <<request, response, ingested, served, session, ticked, locals>>

\* ingest_event: STATE["last_nudge"] = asdict(policy)
IngestSetNudge(c) ==
    /\ UNCHANGED auxVars
    /\ pc[c] = "set_last_nudge"
    /\ CanRun(c)
    /\ State' = [State EXCEPT !.last_nudge = Some(asdict(locals[c].policy))]
    /\ pc' = [pc EXCEPT ![c] = "set_last_event"]
    /\ op' = "ingest_event"
    /\ UNCHANGED llmVars_but_op
    /\ UNCHANGED <<request, response, ingested, served, session, ticked, locals>>

\* ingest_event: STATE["last_event"] = event.model_dump()
IngestSetEvent(c) ==
    /\ UNCHANGED auxVars
    /\ pc[c] = "set_last_event"
    /\ CanRun(c)
    /\ State' = [State EXCEPT !.last_event = locals[c].arg]
    /\ pc' = [pc EXCEPT ![c] = "return"]
    /\ op' = "ingest_event"
    /\ UNCHANGED llmVars_but_op
    /\ UNCHANGED <<request, response, ingested, served, session, ticked, locals>>

\* ingest_event: the log line and the answer, its policy read back from STATE
IngestReturn(c) ==
    /\ UNCHANGED auxVars
    /\ pc[c] = "return"
    /\ CanRun(c)
    /\ State' = log_message(State,
           [msg |-> "Event processed",
            productive |-> is_productive(locals[c].policy),
            action |-> locals[c].policy.action,
            sc_len |-> IF Truthy(locals[c].arg[1].screenshot)
                       THEN Len(locals[c].arg[1].screenshot[1]) ELSE 0])
    /\ \E resp \in {[kind |-> "ok",
                     productive |-> is_productive(locals[c].policy),
                     policy |-> State.last_nudge]} :
          /\ locals' = [locals EXCEPT ![c].response = resp]
          /\ Finish(c, [kind |-> "event", event |-> locals[c].arg[1]], resp)
    /\ ingested' = Some([event |-> locals[c].arg[1],
                         productive |-> is_productive(locals[c].policy),
                         policy |-> asdict(locals[c].policy)])
    /\ op' = "ingest_event"
    /\ UNCHANGED llmVars_but_op
    /\ UNCHANGED <<session, ticked>>

\* POST /focus/update: validation of the request body
FocusValidate ==
    /\ UNCHANGED auxVars
    /\ pc["focus"] = "idle"
    /\ CanRun("focus")
    /\ \E target \in {Some(S_blank), Some(S_task)} :
        \E v \in {target_must_not_be_empty(target)} :
            IF v.kind = "raise"
            THEN /\ locals' = [locals EXCEPT !["focus"].arg = target,
                                             !["focus"].response = HTTPError(422)]
                 /\ Finish("focus", [kind |-> "focus", target |-> target],
                           HTTPError(422))
            ELSE /\ locals' = [locals EXCEPT !["focus"].arg = target]
                 /\ pc' = [pc EXCEPT !["focus"] = "set_focus_target"]
                 /\ UNCHANGED <<request, response, served>>
    /\ op' = "update_focus_target"
    /\ UNCHANGED llmVars_but_op
    /\ UNCHANGED <<State, ingested, session, ticked>>

\* update_focus_target: STATE["focus_target"] = req.target
FocusSet ==
    /\ UNCHANGED auxVars
    /\ pc["focus"] = "set_focus_target"
    /\ CanRun("focus")
    /\ State' = [State EXCEPT !.focus_target = locals["focus"].arg[1]]
    /\ pc' = [pc EXCEPT !["focus"] = "return"]
    /\ op' = "update_focus_target"
    /\ UNCHANGED llmVars_but_op
    /\ UNCHANGED <<request, response, ingested, served, session, ticked, locals>>

\* update_focus_target: the log line and the answer
FocusReturn ==
    /\ UNCHANGED auxVars
    /\ pc["focus"] = "return"
    /\ CanRun("focus")
    /\ State' = log_message(State, [msg |-> "Focus target updated to",
                                    target |-> locals["focus"].arg[1]])
    /\ \E resp \in {[kind |-> "ok", focus_target |-> locals["focus"].arg[1]]} :
          /\ locals' = [locals EXCEPT !["focus"].response = resp]
          /\ Finish("focus", [kind |-> "focus", target |-> locals["focus"].arg],
                    resp)
    /\ op' = "update_focus_target"
    /\ UNCHANGED llmVars_but_op
    /\ UNCHANGED <<ingested, session, ticked>>

\* the order in which get_monitoring_data reads STATE
MonitoringFields ==
    <<"last_event", "last_nudge", "logs", "focus_target", "productive">>

\* get_monitoring_data: the next item of the answer read from STATE
MonitorRead ==
    /\ UNCHANGED auxVars
    /\ pc["monitor"] \in {"idle", "reading"}
    /\ Len(locals["monitor"].seen) < Len(MonitoringFields)
    /\ CanRun("monitor")
    /\ locals' = [locals EXCEPT !["monitor"].seen =
                     Append(@, State[MonitoringFields[Len(@) + 1]])]
    /\ pc' = [pc EXCEPT !["monitor"] = "reading"]
    /\ op' = "get_monitoring_data"
    /\ UNCHANGED llmVars_but_op
    /\ UNCHANGED <<State, request, response, ingested, served, session, ticked>>

\* get_monitoring_data: the answer made of what was read
MonitorReturn ==
    /\ UNCHANGED auxVars
    /\ pc["monitor"] = "reading"
    /\ Len(locals["monitor"].seen) = Len(MonitoringFields)
    /\ CanRun("monitor")
    /\ \E resp \in {[kind |-> "monitoring",
                     last_event |-> locals["monitor"].seen[1],
                     last_nudge |-> locals["monitor"].seen[2],
                     logs |-> locals["monitor"].seen[3],
                     focus_target |-> locals["monitor"].seen[4],
                     productive |-> locals["monitor"].seen[5]]} :
          /\ locals' = [locals EXCEPT !["monitor"].response = resp]
          /\ Finish("monitor", NoRequest, resp)
    /\ op' = "get_monitoring_data"
    /\ UNCHANGED llmVars_but_op
    /\ UNCHANGED <<State, ingested, session, ticked>>

\* the ticker waking up and reading the productive flag
TickerWake ==
    /\ UNCHANGED auxVars
    /\ pc["ticker"] = "sleep"
    /\ ticked.ticks < MaxTicks
    /\ CanRun("ticker")
    /\ locals' = [locals EXCEPT !["ticker"].productive = State.productive]
    /\ pc' = [pc EXCEPT !["ticker"] = "credit"]
    /\ op' = "ticker"
    /\ UNCHANGED llmVars_but_op
    /\ UNCHANGED <<State, request, response, ingested, served, session, ticked>>

\* the ticker crediting the task under the flag it read and going to sleep
TickerCredit ==
    /\ UNCHANGED auxVars
    /\ pc["ticker"] = "credit"
    /\ CanRun("ticker")
    /\ session' = ticker(session, locals["ticker"].productive)
    /\ ticked' = IF session.current_task = None THEN ticked
                 ELSE [ticked EXCEPT !.ticks = @ + 1,
                                     !.idle = IF locals["ticker"].productive
                                              THEN @ ELSE @ + 1]
    /\ pc' = [pc EXCEPT !["ticker"] = "sleep"]
    /\ op' = "ticker"
    /\ UNCHANGED llmVars_but_op
    /\ UNCHANGED <<State, request, response, ingested, served, locals>>

IngestStep(c) ==
    \/ IngestLookup(c)
    \/ IngestCall(c)
    \/ IngestSetProductive(c)
    \/ IngestSetNudge(c)
    \/ IngestSetEvent(c)
    \/ IngestReturn(c)

NextConc ==
    \/ \E c \in IngestTasks : IngestStep(c)
    \/ FocusValidate
    \/ FocusSet
    \/ FocusReturn
    \/ MonitorRead
    \/ MonitorReturn
    \/ TickerWake
    \/ TickerCredit

SpecConc == InitConc /\ [][NextConc]_vars

(***************************************************************************)
(* create_llm_service on its own                                           *)
(***************************************************************************)
\* the calls the factory receives: each argument left out, empty or given,
\* each environment variable unset, empty or set; the rule-based engine's
\* factory takes no model name
FactoryCalls ==
    {[kind |-> "factory", v |-> v, base_url |-> b, model_name |-> m,
      env |-> [LLM_URL |-> eu, LLM_MODEL |-> em]] :
        v \in Variants,
        b \in {None, Some(<<>>), Some(S_llm_url)},
        m \in {None, Some(<<>>), Some(S_gemma)},
        eu \in {None, Some(<<>>), Some(S_env_url)},
        em \in {None, Some(<<>>), Some(S_env_model)}}

InitFactory ==
    /\ AuxInit
    /\ now = min_call_interval
    /\ last_call_time = 0
    /\ prev_pass = 0
    /\ passes = 0
    /\ op = "__init__"
    /\ task = <<>>
    /\ obs = NoObs
    /\ probe = NoProbe
    /\ reply = NoReply
    /\ sent = NoSent
    /\ posts = 0
    /\ limited = FALSE
    /\ arrived = 0
    /\ result = NoResult
    /\ State = STATE0
    /\ request \in {c \in FactoryCalls : c.v = "rules" => c.model_name = None}
    /\ variant = request.v
    /\ response = NoResponse
    /\ ingested = None
    /\ served = 0
    /\ session = NoSession(2)
    /\ ticked = NoTicks
    /\ pc = [c \in Procs |-> IF c = "ticker" THEN "sleep" ELSE "idle"]
    /\ locals = [c \in Procs |-> NoLocals]

\* create_llm_service(base_url, model_name) called directly
FactoryCall ==
    /\ UNCHANGED auxVars
    /\ op = "__init__"
    /\ op' = "create_llm_service"
    /\ result' = create_llm_service(variant, request.base_url, request.model_name,
                                    request.env)
    /\ UNCHANGED llmVars_but_op_result
    /\ UNCHANGED apiVars

NextFactory == FactoryCall

SpecFactory == InitFactory /\ [][NextFactory]_vars

(***************************************************************************)
(* _build_context_prompt on its own                                        *)
(***************************************************************************)
\* idle times around the two thresholds, and an explicit null
PromptIdles ==
    {None, Some(0), Some(999), Some(4999), Some(5000), Some(5001), Some(5999),
     Some(59999), Some(60000), Some(60001), Some(60999), Some(61000),
     Some(119999), Some(125000), Some(400000)}

PromptObservations ==
    { WithOcr(Observation(a, t, u, i, p, x), o) :
        a \in {None, Some(S_Code_exe)},
        t \in {Some(S_main_VSCode)},
        u \in {Some(<<>>), Some(S_youtube_url)},
        i \in PromptIdles,
        p \in BOOLEAN,
        x \in {None, Some(S_b64)},
        o \in {<<>>, S_def_function} }

InitPrompt ==
    /\ variant \in Variants
    /\ now = min_call_interval
    /\ last_call_time = 0
    /\ prev_pass = 0
    /\ passes = 0
    /\ op = "__init__"
    /\ task = S_task
    /\ obs \in PromptObservations
    /\ probe = NoProbe
    /\ reply = NoReply
    /\ sent = NoSent
    /\ posts = 0
    /\ limited = FALSE
    /\ arrived = 0
    /\ result = NoResult
    /\ ApiInit

\* _build_context_prompt(task, observations) called directly
PromptCall ==
    /\ UNCHANGED auxVars
    /\ op = "__init__"
    /\ op' = "_build_context_prompt"
    /\ result' = _build_context_prompt(task, obs)
    /\ UNCHANGED llmVars_but_op_result
    /\ UNCHANGED apiVars

NextPrompt == PromptCall

SpecPrompt == InitPrompt /\ [][NextPrompt]_vars

(***************************************************************************)
(* Desktop notifications (src/src/ui/notifications.py)                     *)
(***************************************************************************)
\* NotificationLevel values
WARNING == "warning"
URGENT == "urgent"

\* bool(x) of a value taken from a policy dictionary
TruthyValue(x) ==
    \/ x.t = "str" /\ x.v # ""
    \/ x.t = "number" /\ x.v # "0"

NoNotification == [toast |-> FALSE, record |-> None, returned |-> FALSE]

\* the module-level notify: a NotificationService made for this one call
\* shows a toast on Windows only, appends the record to its history and
\* returns its success flag, which nothing ever sets
notify(platform, title, message, level, sound, flash) ==
    [toast |-> platform = "Windows",
     record |-> Some([title |-> title, message |-> message, level |-> level,
                      sound |-> sound, flash |-> flash, delivered |-> FALSE]),
     returned |-> FALSE]

\* the parts notify_with_details joins into the message
detailed_message(event, policy, focus_target) ==
    LET idle_ms == IF event.idle_ms = None THEN 0 ELSE event.idle_ms[1]
        idle_minutes == idle_ms \div (1000 * 60)
        reason == DictGet(policy, "reason", PyStr(""))
        tip == DictGet(policy, "tip", PyNone)
    IN  (IF Truthy(event.active_app)
         THEN <<[part |-> "app", text |-> event.active_app[1]]>>
                 \o (IF Truthy(event.title) /\ Len(event.title[1]) < 50
                     THEN <<[part |-> "title", text |-> event.title[1]]>>
                     ELSE <<>>)
         ELSE <<>>)
        \o <<[part |-> "goal", text |-> focus_target]>>
        \o (IF TruthyValue(reason) THEN <<[part |-> "reason", text |-> reason.v]>>
            ELSE <<>>)
        \o (IF idle_minutes > 0 THEN <<[part |-> "idle", minutes |-> idle_minutes]>>
            ELSE <<>>)
        \o (IF TruthyValue(tip) THEN <<[part |-> "tip", text |-> tip.v]>> ELSE <<>>)
        \o (IF policy.confidence > 0
            THEN <<[part |-> "confidence", percent |-> policy.confidence * 10]>>
            ELSE <<>>)

\* notify_with_details: level, sound and flash chosen by the action; every
\* action other than the two nudges takes the branch that returns False
notify_with_details(platform, event, policy, focus_target) ==
    LET action == DictGet(policy, "action", PyStr("quiet"))
    IN  IF action = PyStr("strong_nudge")
        THEN notify(platform, "Back2Task - focus!",
                    detailed_message(event, policy, focus_target), URGENT,
                    TRUE, TRUE)
        ELSE IF action = PyStr("gentle_nudge")
        THEN notify(platform, "Back2Task",
                    detailed_message(event, policy, focus_target), WARNING,
                    FALSE, FALSE)
        ELSE NoNotification

\* policies as the decision pipeline hands them on
NotifyPolicies ==
    {[action |-> a, reason |-> r, tip |-> t, confidence |-> c] :
        a \in RemoteActions,
        r \in {PyStr("LLM decision"), PyStr("")},
        t \in {PyNone, PyStr("Get back to your task!")},
        c \in {0, 8}}

NotifyCalls ==
    {[kind |-> "notify", platform |-> pf, event |-> e, policy |-> pol,
      focus_target |-> S_task] :
        pf \in {"Windows", "Linux"},
        e \in {ObsEditor, ObsLongIdle},
        pol \in NotifyPolicies}

InitNotify ==
    /\ AuxInit
    /\ variant = "static"
    /\ now = min_call_interval
    /\ last_call_time = 0
    /\ prev_pass = 0
    /\ passes = 0
    /\ op = "__init__"
    /\ task = <<>>
    /\ obs = NoObs
    /\ probe = NoProbe
    /\ reply = NoReply
    /\ sent = NoSent
    /\ posts = 0
    /\ limited = FALSE
    /\ arrived = 0
    /\ result = NoResult
    /\ State = STATE0
    /\ request \in NotifyCalls
    /\ response = NoResponse
    /\ ingested = None
    /\ served = 0
    /\ session = NoSession(2)
    /\ ticked = NoTicks
    /\ pc = [c \in Procs |-> IF c = "ticker" THEN "sleep" ELSE "idle"]
    /\ locals = [c \in Procs |-> NoLocals]

\* notify_with_details(event, policy, focus_target) called directly
NotifyCall ==
    /\ UNCHANGED auxVars
    /\ op = "__init__"
    /\ op' = "notify_with_details"
    /\ result' = notify_with_details(request.platform, request.event,
                                     request.policy, request.focus_target)
    /\ UNCHANGED llmVars_but_op_result
    /\ UNCHANGED apiVars

NextNotify == NotifyCall

SpecNotify == InitNotify /\ [][NextNotify]_vars

(***************************************************************************)
(* The rate-limited NotificationService (src/ui/notifications.py)          *)
(***************************************************************************)
INFO == "info"

MAX_HISTORY == 100

min_notification_interval == 1 * TicksPerSecond

MaxNotifications == 5

\* the clock of the notification service runs over three further intervals
MaxClock == 4 * min_notification_interval

\* mutant: the check stamps the time of a rejected attempt too
_rate_limit_check_stamps_rejected(self, t) ==
    [ok |-> ~(t - self.last_notification_time < min_notification_interval),
     self |-> [self EXCEPT !.last_notification_time = t]]

\* NotificationService._rate_limit_check at time t: its answer and the
\* service afterwards
_rate_limit_check(self, t) ==
    IF t - self.last_notification_time < min_notification_interval
    THEN [ok |-> FALSE, self |-> self]
    ELSE [ok |-> TRUE, self |-> [self EXCEPT !.last_notification_time = t]]

\* NotificationService.notify at time t; toast is what _send_toast answers
NotificationService_notify(self, t, title, message, level, toast) ==
    LET chk == _rate_limit_check(self, t)
        notification_record ==
            [timestamp |-> t, title |-> title, message |-> message,
             level |-> level]
        appended == Append(chk.self.notification_history, notification_record)
        kept == IF Len(appended) > chk.self.max_history
                THEN Tail(appended) ELSE appended
    IN  IF ~chk.ok
        THEN [ok |-> FALSE, self |-> chk.self]
        ELSE [ok |-> toast,
              self |-> [chk.self EXCEPT !.notification_history = kept]]

\* one entry of the attempt history
Attempt(kind, at, title, accepted) ==
    [kind |-> kind, at |-> at, title |-> title, accepted |-> accepted]

\* time.time() is far past the first interval when the service is built
InitNotifier ==
    /\ variant = "rules"
    /\ now = min_notification_interval
    /\ last_call_time = 0
    /\ prev_pass = 0
    /\ passes = 0
    /\ op = "__init__"
    /\ task = <<>>
    /\ obs = NoObs
    /\ probe = NoProbe
    /\ reply = NoReply
    /\ sent = NoSent
    /\ posts = 0
    /\ limited = FALSE
    /\ arrived = 0
    /\ result = NoResult
    /\ State = STATE0
    /\ request = NoRequest
    /\ response = NoResponse
    /\ ingested = None
    /\ served = 0
    /\ session = NoSession(2)
    /\ ticked = NoTicks
    /\ pc = [c \in Procs |-> IF c = "ticker" THEN "sleep" ELSE "idle"]
    /\ locals = [c \in Procs |-> NoLocals]
    /\ notifier \in {NotificationService(MAX_HISTORY), NotificationService(3)}
    /\ attempts = <<>>
    /\ pump = NoPump
    /\ cycles = NoCycles

notifierFrame ==
    <<variant, last_call_time, prev_pass, passes, task, obs, probe, reply,
      sent, posts, limited, arrived, State, response, ingested, served,
      session, ticked, pc, locals, pump, cycles>>

\* time passes between two calls
NotifierTick ==
    /\ now < MaxClock
    /\ now' = now + 1
    /\ UNCHANGED <<op, request, result, notifier, attempts>>
    /\ UNCHANGED notifierFrame

\* _rate_limit_check() called on its own
RateLimitCheck ==
    /\ Len(attempts) < MaxNotifications
    /\ \E chk \in {_rate_limit_check(notifier, now)} :
        /\ notifier' = chk.self
        /\ result' = Return(chk.ok)
        /\ attempts' = Append(attempts, Attempt("check", now, 0, chk.ok))
    /\ op' = "_rate_limit_check"
    /\ request' = NoRequest
    /\ UNCHANGED now
    /\ UNCHANGED notifierFrame

\* notify("Test <n>", "Message", level), n counting the calls from 0
Notify ==
    /\ Len(attempts) < MaxNotifications
    /\ \E level \in {INFO, URGENT}, toast \in BOOLEAN :
        \E r \in {NotificationService_notify(notifier, now, Len(attempts),
                                             "Message", level, toast)} :
            /\ notifier' = r.self
            /\ result' = Return(r.ok)
            /\ request' = [kind |-> "notify", title |-> Len(attempts),
                           level |-> level]
            /\ attempts' = Append(attempts,
                   Attempt("notify", now, Len(attempts),
                           /\ r.self.notification_history # <<>>
                           /\ r.self.notification_history[
                                  Len(r.self.notification_history)].title
                              = Len(attempts)))
    /\ op' = "notify"
    /\ UNCHANGED now
    /\ UNCHANGED notifierFrame

NextNotifier == NotifierTick \/ RateLimitCheck \/ Notify

SpecNotifier == InitNotifier /\ [][NextNotifier]_vars

(***************************************************************************)
(* The event pump (src/src/watchers/pump.py, src/watchers/pump.py)         *)
(***************************************************************************)
\* variant "static" is the pump of src/src/watchers, "rules" the one of
\* src/watchers
max_errors == 5

MaxCycles == 6

\* the watchers collect_all_data submits to the thread pool
Watchers(v) ==
    IF v = "static" THEN {"window", "idle", "screenshot"}
    ELSE {"window", "idle", "ocr", "phone"}

\* EventPump.__init__; loop is where run_continuous stands
EventPump(v) ==
    [error_counts |-> [k \in Watchers(v) \cup {"api"} |-> 0],
     stats |-> [events_sent |-> 0, errors_total |-> 0],
     running |-> FALSE, loop |-> "idle"]

\* what a watcher's thread comes to: its value in time, an exception, or its
\* value after the timeout of future.result has passed
WatcherOutcomes == {"ok", "raise", "late"}

\* error_counts[w] after the thread of watcher w has run
collect_data(v, w, count, outcome) ==
    IF v = "static"
    THEN IF w \in {"window", "idle"} /\ outcome # "raise" THEN 0 ELSE count
    ELSE IF w \in {"window", "idle"}
         THEN IF outcome = "raise" THEN count + 1 ELSE 0
         ELSE IF w = "ocr"
         THEN IF count >= max_errors THEN count
              ELSE IF outcome = "raise" THEN count + 1 ELSE 0
         ELSE count

\* whether future.result raises in collect_all_data: the watcher's own
\* exception where the watcher does not catch it, TimeoutError when late
collect_all_data_raises(v, outs) ==
    \E w \in Watchers(v) :
        \/ outs[w] = "late"
        \/ v = "static" /\ outs[w] = "raise"

\* mutant: the api error counter is left as it is by a successful send
send_event_keeps_api_errors(v, self, post) ==
    IF post.kind = "status"
    THEN IF post.code = HTTP_OK
         THEN [ret |-> Return(TRUE),
               self |-> [self EXCEPT !.stats.events_sent = @ + 1]]
         ELSE [ret |-> Return(FALSE), self |-> [self EXCEPT !.error_counts["api"] = @ + 1]]
    ELSE IF IsRequestException(post.exc) \/ v = "rules"
    THEN [ret |-> Return(FALSE), self |-> [self EXCEPT !.error_counts["api"] = @ + 1]]
    ELSE [ret |-> Raise(post.exc), self |-> self]

\* EventPump.send_event; post is what requests.post came to
send_event(v, self, post) ==
    IF post.kind = "status"
    THEN IF post.code = HTTP_OK
         THEN [ret |-> Return(TRUE),
               self |-> [self EXCEPT !.error_counts["api"] = 0,
                                     !.stats.events_sent = @ + 1]]
         ELSE [ret |-> Return(FALSE), self |-> [self EXCEPT !.error_counts["api"] = @ + 1]]
    ELSE IF IsRequestException(post.exc) \/ v = "rules"
    THEN [ret |-> Return(FALSE), self |-> [self EXCEPT !.error_counts["api"] = @ + 1]]
    ELSE [ret |-> Raise(post.exc), self |-> self]

\* EventPump.run_once: what it returns or raises, the pump afterwards, and
\* whether the POST was issued
run_once(v, self, outs, post) ==
    LET collected ==
            [self EXCEPT !.error_counts =
                [k \in DOMAIN self.error_counts |->
                    IF k = "api" THEN self.error_counts[k]
                    ELSE collect_data(v, k, self.error_counts[k], outs[k])]]
        failed == [collected EXCEPT !.stats.errors_total = @ + 1]
        s == send_event(v, collected, post)
    IN  IF collect_all_data_raises(v, outs)
        THEN IF v = "static"
             THEN [ret |-> Raise("TimeoutError"), self |-> collected, posted |-> FALSE]
             ELSE [ret |-> Return(FALSE), self |-> failed, posted |-> FALSE]
        ELSE IF s.ret = Return(TRUE)
        THEN [ret |-> Return(TRUE), self |-> s.self, posted |-> TRUE]
        ELSE IF s.ret = Return(FALSE)
        THEN [ret |-> Return(FALSE),
              self |-> [s.self EXCEPT !.stats.errors_total = @ + 1],
              posted |-> TRUE]
        ELSE [ret |-> s.ret, self |-> s.self, posted |-> TRUE]

\* sum(self.error_counts.values())
RECURSIVE SumCounts(_, _)
SumCounts(counts, keys) ==
    IF keys = {} THEN 0
    ELSE LET k == CHOOSE x \in keys : TRUE
         IN  counts[k] + SumCounts(counts, keys \ {k})

\* the rest of a run_continuous pass after run_once has returned: past
\* 3 * max_errors errors the pump sleeps and takes 2 off every counter
after_cycle(self) ==
    IF SumCounts(self.error_counts, DOMAIN self.error_counts) > max_errors * 3
    THEN [self EXCEPT !.error_counts =
            [k \in DOMAIN self.error_counts |->
                IF self.error_counts[k] - 2 > 0 THEN self.error_counts[k] - 2 ELSE 0]]
    ELSE self

\* one pass of the while loop of run_continuous: an exception leaving
\* run_once leaves the loop too (the older pump then calls stop)
run_continuous(v, self, outs, post) ==
    LET r == run_once(v, self, outs, post)
    IN  IF r.ret.kind = "return"
        THEN [r EXCEPT !.self = after_cycle(r.self)]
        ELSE [r EXCEPT !.self = [r.self EXCEPT !.loop = "raised",
                                               !.running = (v = "static")]]

\* what requests.post can come to
PostOutcomes ==
    {[kind |-> "status", code |-> HTTP_OK, exc |-> ""],
     [kind |-> "status", code |-> 503, exc |-> ""],
     [kind |-> "raise", code |-> 0, exc |-> "ConnectionError"],
     [kind |-> "raise", code |-> 0, exc |-> "ValueError"]}

\* the watcher outcomes of one cycle
CycleOutcomes(v) ==
    {outs \in [Watchers(v) -> WatcherOutcomes] :
        /\ outs["window"] # "late"
        /\ outs["idle"] # "raise"
        /\ \A w \in Watchers(v) \ {"window", "idle"} : outs[w] # "raise" \/ w = "ocr"
        /\ "phone" \in Watchers(v) => outs["phone"] = "ok"}

InitPump ==
    /\ variant \in Variants
    /\ now = min_call_interval
    /\ last_call_time = 0
    /\ prev_pass = 0
    /\ passes = 0
    /\ op = "__init__"
    /\ task = <<>>
    /\ obs = NoObs
    /\ probe = NoProbe
    /\ reply = NoReply
    /\ sent = NoSent
    /\ posts = 0
    /\ limited = FALSE
    /\ arrived = 0
    /\ result = NoResult
    /\ State = STATE0
    /\ request = NoRequest
    /\ response = NoResponse
    /\ ingested = None
    /\ served = 0
    /\ session = NoSession(2)
    /\ ticked = NoTicks
    /\ pc = [c \in Procs |-> IF c = "ticker" THEN "sleep" ELSE "idle"]
    /\ locals = [c \in Procs |-> NoLocals]
    /\ notifier = NoNotifier
    /\ attempts = <<>>
    /\ pump = EventPump(variant)
    /\ cycles = NoCycles

pumpFrame ==
    <<variant, now, last_call_time, prev_pass, passes, task, obs, probe, reply,
      sent, posts, limited, arrived, State, response, ingested, served,
      session, ticked, pc, locals, notifier, attempts>>

\* run_continuous entered: running set, the loop about to start
StartPump ==
    /\ pump.loop = "idle"
    /\ pump' = [pump EXCEPT !.running = TRUE, !.loop = "running"]
    /\ op' = "run_continuous"
    /\ UNCHANGED <<request, result, cycles>>
    /\ UNCHANGED pumpFrame

\* one pass of the loop
RunCycle ==
    /\ pump.loop = "running"
    /\ pump.running
    /\ cycles.started < MaxCycles
    /\ \E outs \in CycleOutcomes(variant), post \in PostOutcomes :
        \E r \in {run_continuous(variant, pump, outs, post)} :
            /\ pump' = r.self
            /\ result' = r.ret
            /\ request' = [kind |-> "cycle", outs |-> outs,
                           post |-> IF r.posted THEN post
                                    ELSE [kind |-> "none", code |-> 0, exc |-> ""]]
            /\ cycles' =
                 [started |-> cycles.started + 1,
                  completed |-> cycles.completed + (IF r.ret.kind = "return" THEN 1 ELSE 0),
                  ok |-> cycles.ok
                         + (IF r.posted /\ post.kind = "status" /\ post.code = HTTP_OK
                            THEN 1 ELSE 0),
                  raised |-> cycles.raised + (IF r.ret.kind = "return" THEN 0 ELSE 1)]
    /\ op' = "run_once"
    /\ UNCHANGED pumpFrame

\* stop(): the loop ends at its next test of self.running
StopPump ==
    /\ pump.loop = "running"
    /\ pump' = [pump EXCEPT !.running = FALSE, !.loop = "stopped"]
    /\ op' = "stop"
    /\ UNCHANGED <<request, result, cycles>>
    /\ UNCHANGED pumpFrame

NextPump == StartPump \/ RunCycle \/ StopPump

SpecPump == InitPump /\ [][NextPump]_vars

(***************************************************************************)
(* Properties                                                              *)
(***************************************************************************)
Decided == op = "decide_nudging_policy"

\* the reply's content parsed as a JSON object
IsObjectReply(rp) ==
    /\ rp.kind = "response"
    /\ rp.status = HTTP_OK
    /\ rp.body.kind = "chat"
    /\ rp.body.content.kind = "object"

\* the failures of the remote call: non-200 status, timeout, connection
\* error, content that json.loads rejects
IsFailedReply(rp) ==
    \/ rp.kind \in {"Timeout", "ConnectionError"}
    \/ rp.kind = "response" /\ rp.status # HTTP_OK
    \/ /\ rp.kind = "response"
       /\ rp.status = HTTP_OK
       /\ rp.body.kind = "chat"
       /\ rp.body.content.kind = "invalid"

IsQuietZero(r) ==
    r.kind = "policy" /\ r.action = PyStr("quiet") /\ r.confidence = 0

\* C1: whatever the remote service replies, a policy returned by
\* decide_nudging_policy has an action among quiet, gentle_nudge and
\* strong_nudge.
C1_ActionInClosedSet ==
    (Decided /\ posts = 1 /\ result.kind = "policy") => result.action \in Actions

\* C2: with the service reachable, decide_nudging_policy returns a policy for
\* every outcome of the remote POST and never raises.
C2_NeverRaises ==
    (Decided /\ is_available(probe) /\ posts = 1) => result.kind = "policy"

\* C3 as stated: when the liveness probe fails the call returns quiet with
\* confidence 0.0 for every observation, without limiter and without POST.
C3_UnavailableQuietZero ==
    (Decided /\ ~is_available(probe)) =>
        (IsQuietZero(result) /\ posts = 0 /\ ~limited)

\* C3 as amended: when the liveness probe fails the call neither passes the
\* rate limiter nor issues a POST; the static engine returns quiet with
\* confidence 0.0 for every observation, the rule-based engine returns what
\* _fallback_policy makes of the observation.
C3_UnavailableNoRemoteCall ==
    (Decided /\ ~is_available(probe)) =>
        /\ posts = 0
        /\ reply = NoReply
        /\ ~limited
        /\ variant = "static" => IsQuietZero(result)
        /\ variant = "rules" => result = _fallback_policy(obs)

\* the spec scenario (Code.exe, "main.py - editor", idle 1000 ms, no phone)
\* answered by the rule-based engine with quiet at confidence 0.3
W3_UnavailableScenario ==
    /\ Decided
    /\ ~is_available(probe)
    /\ obs = ObsEditor
    /\ variant = "rules"
    /\ result.kind = "policy"
    /\ result.action = PyStr("quiet")
    /\ result.confidence = 3
    /\ posts = 0
    /\ ~limited

\* C4: in the static engine every failed remote call yields quiet with
\* confidence 0.0, and a policy has confidence 0.8 only if it was built from
\* a parsed remote object.
C4_StaticFailureQuietZero ==
    (Decided /\ variant = "static" /\ posts = 1) =>
        /\ IsFailedReply(reply) => IsQuietZero(result)
        /\ (result.kind = "policy" /\ result.confidence = 8) => IsObjectReply(reply)

W4_StaticParseError ==
    /\ Decided
    /\ variant = "static"
    /\ posts = 1
    /\ reply.kind = "response"
    /\ reply.body.content.kind = "invalid"
    /\ IsQuietZero(result)
    /\ result.reason = PyStr("LLM parse error")

\* C5: two consecutive passes through the rate limiter of one instance are
\* at least min_call_interval apart; a call arriving earlier leaves the
\* limiter only when the interval is over.
C5_LimiterSeparation ==
    passes >= 2 =>
        /\ last_call_time - prev_pass >= min_call_interval
        /\ last_call_time >= arrived

\* a decision call that arrived early, waited and then issued its POST
W5_EarlyCallWaited ==
    /\ Decided
    /\ passes >= 2
    /\ limited
    /\ arrived - prev_pass < min_call_interval
    /\ last_call_time - prev_pass >= min_call_interval
    /\ posts = 1

\* C6: every decide_nudging_policy call made while the service is reachable
\* issues exactly one POST.
C6_ExactlyOnePost ==
    (Decided /\ is_available(probe)) => posts = 1

\* C7: when the reply's content parses as a JSON object the policy takes the
\* object's action, reason and tip and has confidence 0.8, whatever
\* confidence the object carries.
C7_ParsedObjectPolicy ==
    (Decided /\ posts = 1 /\ IsObjectReply(reply)) =>
        LET data == reply.body.content.data
        IN  /\ result.kind = "policy"
            /\ result.confidence = 8
            /\ data.action # Absent => result.action = data.action
            /\ data.reason # Absent => result.reason = data.reason
            /\ data.tip # Absent => result.tip = data.tip

\* a remote object that reports confidence 0.1 and is returned with 0.8
W7_RemoteConfidenceIgnored ==
    /\ Decided
    /\ posts = 1
    /\ IsObjectReply(reply)
    /\ reply.body.content.data.confidence = PyNum("0.1")
    /\ reply.body.content.data.action = PyStr("strong_nudge")
    /\ result.kind = "policy"
    /\ result.action = PyStr("strong_nudge")
    /\ result.tip = PyStr("Keep up the good work!")
    /\ result.confidence = 8

FellBack == op = "_fallback_policy"

\* C8: in the rule-based fallback a policy returned for an observation with
\* phone_detected set is strong_nudge, whatever its keywords.
C8_PhoneAlwaysStrong ==
    (FellBack /\ obs.phone_detected /\ result.kind = "policy") =>
        result.action = PyStr("strong_nudge")

\* C9: in the rule-based fallback an observation idle for more than 300000 ms
\* with no phone yields gentle_nudge whatever keywords its text contains.
C9_IdleBeforeKeywords ==
    (FellBack /\ obs.idle_ms # None /\ ~obs.phone_detected) =>
        (obs.idle_ms[1] > 300000 =>
            (result.kind = "policy" /\ result.action = PyStr("gentle_nudge")))

\* a long-idle observation whose text names a strong distraction
W9_LongIdleOnYouTube ==
    /\ FellBack
    /\ obs.idle_ms = Some(400000)
    /\ ~obs.phone_detected
    /\ AnyIn(strong_distractions, content_to_check(obs))
    /\ result.kind = "policy"
    /\ result.action = PyStr("gentle_nudge")
    /\ result.reason = PyStr("Long idle time")

\* C10: keyword matching is case-insensitive: with idle at most 5 minutes, no
\* phone and no screenshot, a strong-distraction keyword in any letter case
\* yields strong_nudge, and a text with only a productive keyword in any
\* case yields quiet with reason 'Productive activity'.
C10_CaseInsensitiveKeywords ==
    (/\ FellBack
     /\ obs.idle_ms # None
     /\ ~obs.phone_detected
     /\ ~Truthy(obs.screenshot)) =>
        LET text == Lower(content_to_check(obs))
        IN  obs.idle_ms[1] <= 300000 =>
              /\ AnyIn(strong_distractions, text) =>
                    (result.kind = "policy" /\ result.action = PyStr("strong_nudge"))
              /\ (/\ ~AnyIn(strong_distractions, text)
                  /\ ~AnyIn(gentle_distractions, text)
                  /\ AnyIn(productive_patterns, text)) =>
                    /\ result.kind = "policy"
                    /\ result.action = PyStr("quiet")
                    /\ result.reason = PyStr("Productive activity")

Ingested == op = "ingest_event" /\ response.kind = "ok"

\* C11: after any sequence of ingestion and focus-update calls the stored
\* productive flag, last policy and last observation are those of the most
\* recent ingestion that was answered successfully, all three of that one
\* call; before the first such call they are the values State starts with.
C11_StateOfLatestIngestion ==
    IF ingested = None
    THEN /\ State.productive = STATE0.productive
         /\ State.last_nudge = None
         /\ State.last_event = None
    ELSE /\ State.productive = ingested[1].productive
         /\ State.last_nudge = Some(ingested[1].policy)
         /\ State.last_event = Some(ingested[1].event)

\* a strong nudge for the YouTube event is stored, and a later ingestion
\* that fails leaves the three fields as they were
W11_FailedIngestionKeepsLatest ==
    /\ op = "ingest_event"
    /\ response = HTTPError(500)
    /\ request.event = ObsNullIdle
    /\ State.last_event = Some(ObsYouTubePhone)
    /\ State.last_nudge # None
    /\ State.last_nudge[1].action = PyStr("strong_nudge")
    /\ State.productive = FALSE

\* a target that is empty or made of whitespace only
IsBlankTarget(t) == t # None /\ \A i \in 1..Len(t[1]) : IsSpace(t[1][i])

\* C13: a focus-target update whose target is empty or only whitespace is
\* answered with the validation error 422 and changes no field of State.
C13_BlankTargetRejected ==
    [][(/\ op' = "update_focus_target"
        /\ served' = served + 1
        /\ IsBlankTarget(request'.target)) =>
            (response' = HTTPError(422) /\ State' = State)]_vars

\* a whitespace-only target refused after a padded one had been stored
W13_BlankAfterPadded ==
    /\ op = "update_focus_target"
    /\ request.target = Some(S_blank)
    /\ response = HTTPError(422)
    /\ State.focus_target = S_padded
    /\ Len(State.logs) = 1

\* what a tick credits under the flag it finds
Credit == IF State.productive THEN session.tick_sec ELSE 0

\* C14: for an active session a tick adds exactly the tick interval to the
\* accumulated time when the productive flag is true at tick time and nothing
\* when it is false (the task is cleared instead when that sum reaches the
\* goal); every other operation leaves the accumulated time of the running
\* task as it is, a new session starting from zero.
C14_TickCreditsProductiveTime ==
    [][session.current_task # None =>
         LET t == session.current_task[1]
         IN  IF op' = "ticker"
             THEN IF session'.current_task # None
                  THEN session'.current_task[1] = [t EXCEPT !.accum = t.accum + Credit]
                  ELSE t.accum + Credit >= t.goal
             ELSE /\ session'.current_task # None
                  /\ \/ session'.current_task[1].accum = t.accum
                     \/ /\ op' = "focus_start"
                        /\ session'.current_task[1].accum = 0]_vars

\* six seconds on a ten-second task after four ticks, one of them idle
W14_IdleTickCreditedNothing ==
    /\ op = "ticker"
    /\ session.tick_sec = 2
    /\ session.current_task = Some(Session(S_test_task, 10, 6))
    /\ ticked.ticks = 4
    /\ ticked.idle = 1
    /\ ~State.productive

\* the latest session has reached its goal
GoalReached ==
    ticked.start + (ticked.ticks - ticked.idle) * session.tick_sec >= ticked.goal

\* C15: a session is marked done and its task cleared at the first tick
\* after which the accumulated time is at least the goal and not before; with
\* goal 10 s, tick interval 2 s and every tick productive that is the fifth
\* tick.
C15_DoneAtFirstTickReachingGoal ==
    ticked.goal > 0 =>
        /\ GoalReached <=>
              (session.current_task = None /\ session.done = Some(ticked.id))
        /\ ~GoalReached =>
              session.current_task = Some(Session(ticked.id, ticked.goal,
                  ticked.start + (ticked.ticks - ticked.idle) * session.tick_sec))
        /\ (/\ GoalReached
            /\ ticked.goal = 10
            /\ ticked.start = 0
            /\ session.tick_sec = 2
            /\ ticked.idle = 0) => ticked.ticks = 5

\* the ten-second session done by five productive ticks of two seconds
W15_DoneAtFifthTick ==
    /\ op = "ticker"
    /\ ticked.goal = 10
    /\ ticked.start = 0
    /\ session.tick_sec = 2
    /\ ticked.idle = 0
    /\ ticked.ticks = 5
    /\ session.done = Some(S_test_task)
    /\ session.current_task = None

\* a task that is not in the middle of a handler
AtRest(c) == pc[c] \in {"idle", "done", "sleep"}

\* productive flag, last policy and last observation as one ingestion call
\* writes them, and as State holds them before the first
CommittedTriples ==
    {<<TRUE, None, None>>}
        \cup {<<is_productive(locals[c].policy), Some(asdict(locals[c].policy)),
               locals[c].arg>> :
                 c \in {i \in IngestTasks : locals[i].policy.kind = "policy"}}

\* C12: under every interleaving of two ingestion requests, a focus update,
\* a monitoring read and the ticker, at most one task is inside a handler at
\* a time; the record at rest and the record a read returns hold the
\* productive flag, policy and observation of one single ingestion; an
\* ingestion answers with its own policy; the flag the ticker credits by is
\* the stored one.
C12_NoHalfUpdatedRecord ==
    /\ Cardinality({c \in Procs : ~AtRest(c)}) <= 1
    /\ (\A c \in Procs : AtRest(c)) =>
          <<State.productive, State.last_nudge, State.last_event>>
              \in CommittedTriples
    /\ pc["monitor"] = "done" =>
          <<locals["monitor"].response.productive,
            locals["monitor"].response.last_nudge,
            locals["monitor"].response.last_event>> \in CommittedTriples
    /\ \A c \in IngestTasks :
          (pc[c] = "done" /\ locals[c].response.kind = "ok") =>
              locals[c].response.policy = Some(asdict(locals[c].policy))
    /\ pc["ticker"] = "credit" => locals["ticker"].productive = State.productive

\* both ingestions served, a strong nudge for YouTube and then quiet for
\* the editor; the read that ran between them returned the first one's three
\* values, the record holds the second one's, and the ticker has skipped one
\* tick and credited the next, which ended the session
W12_ReadBetweenTwoIngestions ==
    /\ \A c \in Procs : AtRest(c)
    /\ pc["ingest_1"] = "done"
    /\ pc["ingest_2"] = "done"
    /\ pc["monitor"] = "done"
    /\ locals["ingest_1"].arg = Some(ObsYouTubePhone)
    /\ locals["ingest_1"].policy.action = PyStr("strong_nudge")
    /\ locals["ingest_2"].arg = Some(ObsEditor)
    /\ locals["ingest_2"].policy.action = PyStr("quiet")
    /\ locals["monitor"].response.last_event = Some(ObsYouTubePhone)
    /\ ~locals["monitor"].response.productive
    /\ State.last_event = Some(ObsEditor)
    /\ State.productive
    /\ ticked.ticks = 2
    /\ ticked.idle = 1
    /\ session.done = Some(S_test_task)

\* C16: every ingested observation whose idle_ms is at least 5000 is judged
\* non-productive, whatever its other fields.
C16_IdleIsNonProductive ==
    (/\ Ingested
     /\ request.event.idle_ms # None
     /\ request.event.idle_ms[1] >= 5000) => ~response.productive

StartedUp == op = "startup_event" /\ State.llm_service # None

\* C17: is_available returns true exactly when the GET on the model listing
\* is answered with a 2xx status, and false for any other status and for a
\* failed request.
C17_AvailableOnAny2xx ==
    StartedUp =>
        (State.logs[Len(State.logs)].is_ready <=>
            (probe.kind = "status" /\ probe.code >= 200 /\ probe.code <= 299))

Created == op = "create_llm_service"

\* given neither as an argument nor in the environment
Unsupplied(x, e) == x = None /\ e = None

\* given as a non-empty argument or a non-empty environment value
Supplied(x, e) == Truthy(x) \/ Truthy(e)

\* C19 as stated: create_llm_service fails and constructs no service
\* whenever the base URL or the model name comes neither as an argument nor
\* from LLM_URL / LLM_MODEL; it never uses an embedded default endpoint.
C19_FailsWithoutConfiguration ==
    Created =>
        /\ (\/ Unsupplied(request.base_url, request.env.LLM_URL)
            \/ Unsupplied(request.model_name, request.env.LLM_MODEL)) =>
                result.kind = "raise"
        /\ result.kind = "LLMService" =>
              (result.base_url # S_localhost /\ result.model_name # S_gpt_oss)

\* C19 as amended: the fail-fast factory (src/src) raises and constructs no
\* service exactly when the base URL or the model name is missing or empty
\* both as an argument and in the environment, an argument taking precedence
\* over the environment, and it never uses an embedded default; the factory
\* of the rule-based engine (src/api) reads no environment, never fails, and
\* uses the embedded http://localhost:8000 when no base URL is passed and
\* the embedded model gpt-oss-20b always.
C19_FailFastOrEmbeddedDefault ==
    Created =>
        IF variant = "static"
        THEN /\ result.kind = "raise" <=>
                  ~(/\ Supplied(request.base_url, request.env.LLM_URL)
                    /\ Supplied(request.model_name, request.env.LLM_MODEL))
             /\ result.kind = "LLMService" =>
                  /\ result.base_url # S_localhost
                  /\ result.model_name # S_gpt_oss
                  /\ result.base_url =
                        RstripSlash(IF Truthy(request.base_url)
                                    THEN request.base_url[1]
                                    ELSE request.env.LLM_URL[1])
                  /\ result.model_name =
                        IF Truthy(request.model_name) THEN request.model_name[1]
                        ELSE request.env.LLM_MODEL[1]
        ELSE /\ result.kind = "LLMService"
             /\ result.model_name = S_gpt_oss
             /\ result.base_url =
                   IF request.base_url = None THEN S_localhost
                   ELSE RstripSlash(request.base_url[1])

\* the fail-fast factory given a base URL but no model name anywhere
W19_MissingModelRaises ==
    /\ Created
    /\ variant = "static"
    /\ request.base_url = Some(S_llm_url)
    /\ request.model_name = None
    /\ request.env.LLM_MODEL = None
    /\ result = Raise("RuntimeError")

Built == op = "_build_context_prompt" /\ obs.idle_ms # None

\* the three wordings of the status line
StatusActive == [form |-> "active", min |-> 0, sec |-> 0]
StatusSec(i) == [form |-> "sec", min |-> 0, sec |-> i \div 1000]
StatusMinSec(i) ==
    [form |-> "min_sec", min |-> i \div 60000, sec |-> (i % 60000) \div 1000]

\* C18 as stated: the status is 'active' for idle_ms below 5000, '<idle_ms
\* div 1000>sec idle' from 5000 up to 60000, and '<idle_ms div 60000>min
\* <(idle_ms mod 60000) div 1000>sec idle' above 60000.
C18_StatusFromFiveSeconds ==
    Built =>
        LET i == obs.idle_ms[1]
        IN  /\ result.kind = "prompt"
            /\ i < 5000 => result.status = StatusActive
            /\ (i >= 5000 /\ i <= 60000) => result.status = StatusSec(i)
            /\ i > 60000 => result.status = StatusMinSec(i)

\* C18 as amended: the status is 'active' for idle_ms up to and including
\* 5000, '<idle_ms div 1000>sec idle' above 5000 up to and including 60000,
\* and '<idle_ms div 60000>min <(idle_ms mod 60000) div 1000>sec idle' above
\* 60000.
C18_StatusAboveFiveSeconds ==
    Built =>
        LET i == obs.idle_ms[1]
        IN  /\ result.kind = "prompt"
            /\ i <= 5000 => result.status = StatusActive
            /\ (i > 5000 /\ i <= 60000) => result.status = StatusSec(i)
            /\ i > 60000 => result.status = StatusMinSec(i)

\* exactly five seconds idle is still worded 'active'
W18_FiveSecondsIsActive ==
    /\ Built
    /\ obs.idle_ms = Some(5000)
    /\ result.kind = "prompt"
    /\ result.status.form = "active"

Notified == op = "notify_with_details"

\* C20: a notification is sent for a policy exactly when its action is not
\* quiet: none for quiet, one of level WARNING without sound or flash for
\* gentle_nudge, one of level URGENT with sound and flash for strong_nudge.
C20_NotifiedUnlessQuiet ==
    Notified =>
        LET action == DictGet(request.policy, "action", PyStr("quiet"))
        IN  /\ result.record # None <=> action # PyStr("quiet")
            /\ action = PyStr("gentle_nudge") =>
                  /\ result.record # None
                  /\ result.record[1].level = WARNING
                  /\ ~result.record[1].sound
                  /\ ~result.record[1].flash
            /\ action = PyStr("strong_nudge") =>
                  /\ result.record # None
                  /\ result.record[1].level = URGENT
                  /\ result.record[1].sound
                  /\ result.record[1].flash

\* C21: the context prompt built from a task and an observation contains
\* the task text, the app name, the window title, the idle status, the
\* phone-use status ('no phone' when the flag is false) and the OCR text
\* snippet.
C21_PromptCarriesEverySignal ==
    Built =>
        /\ result.kind = "prompt"
        /\ LET text == PromptText(variant, result)
           IN  /\ Contains(text, task)
               /\ obs.active_app # None => Contains(text, obs.active_app[1])
               /\ Contains(text, obs.title[1])
               /\ Contains(text, StatusText(idle_desc(obs.idle_ms[1])))
               /\ ~obs.phone_detected => Contains(text, S_no_phone)
               /\ Contains(text, obs.ocr[1])

\* the latest accepted attempt before the k-th, 0 when there is none
LastAccepted(k) ==
    LET earlier == {j \in 1..(k - 1) : attempts[j].accepted}
    IN  IF earlier = {} THEN 0
        ELSE CHOOSE j \in earlier : \A i \in earlier : i <= j

NotifyCallsMade == SelectSeq(attempts, LAMBDA a : a.kind = "notify")

\* C23: after any sequence of notify calls the history holds at most
\* max_history records and always ends with the most recent notify call, the
\* oldest evicted first: it is the last max_history calls, so five calls in
\* a row with max_history 3 leave exactly the last three.
C23_HistoryIsLatestCalls ==
    LET history == notifier.notification_history
        calls == NotifyCallsMade
        n == IF Len(calls) < notifier.max_history
             THEN Len(calls) ELSE notifier.max_history
    IN  /\ Len(history) <= notifier.max_history
        /\ Len(history) = n
        /\ \A i \in 1..Len(history) :
              history[i].title = calls[Len(calls) - Len(history) + i].title

\* C24: the stored productive flag is true exactly when no policy has been
\* stored yet or the stored last policy's action is quiet; every other
\* action, one outside the closed set included, makes it false.
C24_ProductiveIffQuietOrNoPolicy ==
    State.productive
    <=> \/ State.last_nudge = None
        \/ State.last_nudge[1].action = PyStr("quiet")

\* an ingestion answered with an action outside the closed set
W24_UnknownActionNotProductive ==
    /\ Ingested
    /\ State.last_nudge # None
    /\ State.last_nudge[1].action = PyStr("dance")
    /\ ~State.productive

\* C25: ingestion returns a productivity judgement and policy, never an
\* unhandled error, for every observation the Event model accepts, an
\* explicit null for idle_ms, title, url or active_app included, whether the
\* remote service is reachable or not.
C25_IngestionNeverFails ==
    (op = "ingest_event" /\ response # HTTPError(503)) =>
        /\ response.kind = "ok"
        /\ response.productive \in BOOLEAN
        /\ response.policy # None

\* the four policies the keyword rules can return
KeywordReasons ==
    {PyStr("Distraction detected"), PyStr("Minor distraction"),
     PyStr("Productive activity"), PyStr("Unknown activity")}

\* C26: in the rule-based fallback an observation carrying a non-empty
\* screenshot and idle_ms of at most 300000 always yields quiet with
\* confidence 0.2, even when its app name, title or URL contains a strong or
\* gentle distraction keyword: the keyword rules are reached only when no
\* screenshot is present.
C26_ScreenshotSkipsKeywords ==
    (FellBack /\ obs.idle_ms # None) =>
        /\ (Truthy(obs.screenshot) /\ obs.idle_ms[1] <= 300000) =>
              /\ result.kind = "policy"
              /\ result.action = PyStr("quiet")
              /\ result.confidence = 2
        /\ (result.kind = "policy" /\ result.reason \in KeywordReasons) =>
              ~Truthy(obs.screenshot)

\* a screenshot taken while a YouTube page is in front
W26_ScreenshotOnYouTube ==
    /\ FellBack
    /\ Truthy(obs.screenshot)
    /\ obs.idle_ms = Some(1000)
    /\ AnyIn(strong_distractions, content_to_check(obs))
    /\ result.kind = "policy"
    /\ result.action = PyStr("quiet")
    /\ result.confidence = 2

\* a POST /events handled in this step
IngestionStep == served' = served + 1 /\ op' = "ingest_event"

\* C27: an ingestion call made while no decision service is installed is
\* rejected with status 503 and changes nothing: productive flag, last
\* policy, last observation, focus target and log keep their values.
C27_NoServiceRejectedUnchanged ==
    [][(IngestionStep /\ State.llm_service = None) =>
          /\ response' = HTTPError(503)
          /\ State'.productive = State.productive
          /\ State'.last_nudge = State.last_nudge
          /\ State'.last_event = State.last_event
          /\ State'.focus_target = State.focus_target
          /\ State'.logs = State.logs]_vars

\* rejected after a focus update had changed the target and the log
W27_RejectedAfterFocusUpdate ==
    /\ op = "ingest_event"
    /\ response = HTTPError(503)
    /\ State.llm_service = None
    /\ State.focus_target # STATE0.focus_target
    /\ Len(State.logs) = 1

\* a POST /focus/update answered 200 in this step
FocusUpdatedStep ==
    /\ served' = served + 1
    /\ op' = "update_focus_target"
    /\ response'.kind = "ok"

\* C28: the focus target changes only through a successful focus-target
\* update, which replaces it wholesale and changes nothing else in the
\* session state except appending one log entry; an ingestion call never
\* changes the focus target.
C28_FocusTargetFrame ==
    [][/\ State'.focus_target # State.focus_target => FocusUpdatedStep
       /\ FocusUpdatedStep =>
             /\ State'.focus_target = request'.target[1]
             /\ State'.productive = State.productive
             /\ State'.last_nudge = State.last_nudge
             /\ State'.last_event = State.last_event
             /\ State'.llm_service = State.llm_service
             /\ Len(State'.logs) = Len(State.logs) + 1
             /\ SubSeq(State'.logs, 1, Len(State.logs)) = State.logs
       /\ IngestionStep => State'.focus_target = State.focus_target]_vars

\* a new target stored after an ingestion had judged the user distracted
W28_TargetReplacedAfterNudge ==
    /\ op = "update_focus_target"
    /\ response.kind = "ok"
    /\ State.focus_target = S_task
    /\ State.last_event # None
    /\ ~State.productive

RanOnce == op = "run_once"

\* C29: run_once never raises: a failure of a watcher, a timed-out
\* collection future included, or of the send is reported as a False result
\* and counted in errors_total, so run_continuous goes on to its next cycle
\* instead of terminating.
C29_RunOnceNeverRaises ==
    RanOnce =>
        /\ result.kind = "return"
        /\ pump.loop = "running"
        /\ ((\E w \in DOMAIN request.outs : request.outs[w] = "late")
            \/ (request.post.kind = "status" /\ request.post.code # HTTP_OK)
            \/ request.post.kind = "raise") =>
                /\ result = Return(FALSE)
                /\ pump.stats.errors_total > 0

\* C30: events_sent counts exactly the sends answered with HTTP 200 and
\* errors_total exactly the other completed cycles, so that their sum is the
\* number of completed run_once cycles, and every successful send resets
\* the api error counter to 0.
C30_CountersMatchCycles ==
    /\ pump.stats.events_sent = cycles.ok
    /\ pump.stats.errors_total = cycles.completed - cycles.ok
    /\ pump.stats.events_sent + pump.stats.errors_total = cycles.completed
    /\ (RanOnce /\ request.post.kind = "status" /\ request.post.code = HTTP_OK) =>
            pump.error_counts["api"] = 0

\* a send answered 200 in the fourth cycle, two earlier cycles having failed
W30_SuccessAfterFailedCycles ==
    /\ RanOnce
    /\ result = Return(TRUE)
    /\ request.post.code = HTTP_OK
    /\ pump.stats.errors_total = 2
    /\ pump.stats.events_sent = 2
    /\ cycles.completed = 4
    /\ pump.error_counts["api"] = 0

====
